---- MODULE Spec2Model ----
(***************************************************************************)
(* Model of the mxx profile lifecycle orchestrator:                        *)
(*   - PluginLoader (plugin_system/loader.py): the hook bus, i.e. gate     *)
(*     queries, lifecycle broadcasts and emit;                             *)
(*   - ProfileRunner (core/runner.py): start_profile, kill_profile,        *)
(*     notify_profile_failure;                                             *)
(*   - validate_profile (core/parser.py);                                  *)
(*   - sleep_with_countdown (utils/nofuss/sleep.py): the liveness monitor; *)
(*   - the `run up` and `run down` commands (cli/run.py).                  *)
(* One behaviour of Spec is one command invocation.  A bus call is         *)
(* executed one plugin at a time (action Dispatch), an orchestrator step   *)
(* is one statement group of the Python source.                            *)
(***************************************************************************)
EXTENDS Integers, Sequences, FiniteSets, TLC

\* ------------------------------------------------------------------ bounds
MaxPlugins == 2
MaxProfiles == 2

\* ------------------------------------------------------- program constants
DefaultWait == 15
CheckEvery == 10
max_failures == 10

\* -------------------------------------------------------- optional values
\* Python's Optional[int]: None is the empty tuple, a set value v is <<v>>.
None == <<>>
Some(v) == <<v>>
IsNone(o) == o = <<>>
Val(o) == o[1]

\* Python truthiness of an Optional[int] (`if profile.lifetime:`, `x or 15`).
Truthy(o) == ~IsNone(o) /\ Val(o) # 0

\* ------------------------------------------------------- profile universe
LdKinds == {"none", "index", "name"}
MaaKinds == {"none", "ok", "bad"}
LifetimeVals == {0, 2, 20}
WaittimeVals == {3}
OptOf(S) == {None} \cup {Some(v) : v \in S}

Profiles ==
    [ld : LdKinds, maa : MaaKinds,
     lifetime : OptOf(LifetimeVals), waittime : OptOf(WaittimeVals)]

NoProfile == [ld |-> "none", maa |-> "none", lifetime |-> None, waittime |-> None]

\* Wider inputs for the validation specification.
VLifetimeVals == -2 .. 2
VWaittimeVals == -2 .. 2
VProfiles ==
    [ld : LdKinds, maa : MaaKinds,
     lifetime : OptOf(VLifetimeVals), waittime : OptOf(VWaittimeVals)]

\* ------------------------------------------------------------- validation
\* validate_ld_model: an LDModel instance is always truthy, so it passes.
validate_ld_model(ld) == "ok"

\* validate_maa_model: "bad" stands for a MaaModel that fails one of its
\* checks (empty path, missing path, missing app, missing config dir).
validate_maa_model(maa) == IF maa = "bad" THEN "maa" ELSE "ok"

\* Variant: the check written as `lifetime < 0`.
LifetimeRejectedNegative(lt) == ~IsNone(lt) /\ Val(lt) < 0

\* The lifetime check of validate_profile.
LifetimeRejected(lt) == ~IsNone(lt) /\ Val(lt) <= 0

\* The waittime check of validate_profile.
WaittimeRejected(wt) == ~IsNone(wt) /\ Val(wt) < 0

\* validate_profile(profile): "ok" when it returns, otherwise the check
\* that raised ValidationError.  op is an optional profile.
validate_profile(op) ==
    IF IsNone(op) THEN "null"
    ELSE LET p == Val(op) IN
         IF p.ld = "none" /\ p.maa = "none" THEN "nospec"
         ELSE IF LifetimeRejected(p.lifetime) THEN "lifetime"
         ELSE IF WaittimeRejected(p.waittime) THEN "waittime"
         ELSE IF p.ld # "none" /\ validate_ld_model(p.ld) # "ok" THEN "ld"
         ELSE IF p.maa # "none" THEN validate_maa_model(p.maa)
         ELSE "ok"

\* ------------------------------------------------------------------ state
VARIABLES
    cmd,            \* the command line: name, flags, number of profiles named
    nPlugins,       \* PluginLoader.plugins = <<1, ..., nPlugins>>
    cur,            \* position of the current profile in the command's list
    profile,        \* the profile being processed
    pc,             \* position of the orchestrator in the Python source
    bus,            \* the bus call in progress (loop state of PluginLoader)
    log,            \* events issued for the current profile, in order
    canRun,         \* result of _can_run_profile: "unset", "yes", "no"
    canKill,        \* result of _can_kill_profile: "unset", "yes", "no"
    vetoBy,         \* plugin that answered false in the last gate query, or 0
    startResult,    \* return value of start_profile: "unset", "true", "false"
    killResult,     \* return value of kill_profile: "unset", "true", "false"
    remaining,      \* loop variable of sleep_with_countdown
    failure_count,  \* failure_count of sleep_with_countdown
    monResult,      \* its return value: "unset", "true", "false", "none"
    context,        \* PluginLoader.context as run.py writes it
    exit,           \* "running", "exit0", "exit1", "plugin_exit"
    vin,            \* argument of the last validate_profile call
    vres,           \* its outcome: "unset", "ok" or the failed check
    slept,          \* argument of time.sleep in start_profile, once slept
    launched,       \* processes whose launch command was issued and returned
    ledger,         \* today's completion file: profile name -> record
    checked,        \* what the last liveness check of the monitor reported
    recovered,      \* failure count cleared by the last "recovered" message
    completionAt,   \* position of CheckCompletionPlugin in self.plugins, or 0
    notify_list,    \* today's notify list: the profile names added to it
    lastOp,         \* the last CompletionManager call and what it returned
    file,           \* condition of today's completion file on disk
    ld_model,       \* the LDModel last constructed, and how the last call ended
    probe,          \* the last _check_profile_running call: inputs and results
    scoopAt,        \* position of ScoopPlugin in self.plugins, or 0
    calendar,       \* the clock's day and the completion file of the next day
    procs,          \* two CLI processes inside save_completion: position, locals
    next_run        \* `run next`: the name it selected, the names attempted

vars == <<cmd, nPlugins, cur, profile, pc, bus, log, canRun, canKill, vetoBy,
          startResult, killResult, remaining, failure_count, monResult,
          context, exit, vin, vres, slept, launched, ledger, checked,
          recovered, completionAt, notify_list, lastOp, file, ld_model,
          probe, scoopAt, calendar, procs, next_run>>

\* self.plugins of the loader, in registration order.
Plugins == 1 .. nPlugins

\* ---------------------------------------------------------------- the bus
\* Loop state of one PluginLoader call: kind is "gate" (can_run_profile,
\* can_kill_profile), "cast" (the four lifecycle broadcasts) or "emit".
\* idx is the loop position; called are the plugins whose handler was
\* invoked; skipped are plugins without a hook_<name> attribute.  Of the
\* plugin visited last: last is how its call ended ("skip", "true",
\* "false", "err", "exit") and execs how often its handler body was
\* executed.  answer is the value a gate query returns, ctx the context
\* dictionary the loader hands to every handler of the call.
\* A context dictionary, read with ctx.get: the profile name (0: no such
\* key), the failed flag and the --var options the completion plugin reads.
EmptyCtx ==
    [profile_name |-> 0, profile_failed |-> FALSE, by_completion |-> FALSE,
     include_failed |-> FALSE, reset_completion |-> FALSE]

\* self.runtime of ProfileRunner: {} from __init__; set_runtime is not
\* called by any command.
Runtime == EmptyCtx

\* The context argument of a loader call: the runner passes self.runtime to
\* the gate queries and the lifecycle broadcasts, and no context to emit.
HandedCtx(kind) == IF kind = "emit" THEN EmptyCtx ELSE Runtime

IdleBus ==
    [active |-> FALSE, kind |-> "none", name |-> "none", idx |-> 1,
     called |-> {}, skipped |-> {}, last |-> "none", execs |-> 0,
     answer |-> TRUE, ctx |-> EmptyCtx]

BusCall(kind, name) ==
    [active |-> TRUE, kind |-> kind, name |-> name, idx |-> 1,
     called |-> {}, skipped |-> {}, last |-> "none", execs |-> 0,
     answer |-> TRUE, ctx |-> HandedCtx(kind)]

\* What one execution of a handler body can do: return a truthy value,
\* return a falsy value, raise an Exception, raise SystemExit (sys.exit).
Outcomes(kind) ==
    IF kind = "gate" THEN {"true", "false", "err", "exit"}
    ELSE {"true", "err", "exit"}

\* _call_with_inspection(method, ...): the method is called with the
\* accepted kwargs; if that raises an Exception it is called again with all
\* kwargs (vars=...), which is a TypeError before the body runs when the
\* method does not accept vars.  o1, o2 are the outcomes of the first and of
\* the second execution of the body.
CallWithInspection(acceptsVars, o1, o2) ==
    IF o1 = "err"
    THEN IF acceptsVars THEN [execs |-> 2, final |-> o2]
                        ELSE [execs |-> 1, final |-> "err"]
    ELSE [execs |-> 1, final |-> o1]

\* Whether the handler's signature has every keyword argument of the
\* call: the gate queries and the lifecycle broadcasts pass vars=..., the
\* runner's emit passes no keyword argument.
AcceptsKwargs(kind) == IF kind = "emit" THEN {TRUE} ELSE BOOLEAN

\* Variant: a loop without try/except.
LoaderCatchesNothing(o) == FALSE

\* `except Exception` of the loader's loops: what it catches.
LoaderCatches(o) == o = "err"

\* Variant: a gate loop that never returns early.
GateStopsNever(o) == FALSE

\* Variant: a gate loop that takes a raising predicate for a veto.
GateStopsOnRaise(o) == o \in {"false", "err"}

\* `if not result: return False` of can_run_profile / can_kill_profile.
GateStops(o) == o = "false"

\* ----------------------------------------------------------------- inputs
WaitOverrides == OptOf({-1})

Commands ==
    [name : {"up"}, kill : BOOLEAN, kill_all : BOOLEAN,
     waittime : WaitOverrides, n : 1 .. MaxProfiles]
    \cup [name : {"down"}, kill : {FALSE}, kill_all : {FALSE},
          waittime : {None}, n : 0 .. MaxProfiles]
    \cup [name : {"start"}, kill : {FALSE}, kill_all : {FALSE},
          waittime : {None}, n : {1}]

\* Where the command's function body starts.
EntryPc(c) ==
    IF c.name = "up" THEN "up_loop"
    ELSE IF c.name = "start" THEN "start_call"
    ELSE IF c.n = 0 THEN "down_all" ELSE "down_loop"

\* PluginLoader.context of a command line without --var options.
NoContext == EmptyCtx

\* Profile names are the positions 1 .. MaxProfiles of the command line.
Names == 1 .. MaxProfiles

\* Today's completion file does not exist, _load_completions returns {}.
NoRecords == [n \in Names |-> "none"]

\* No LDModel has been constructed.
NoLd == [obj |-> None, raised |-> "none", call |-> "none"]

\* No _check_profile_running call was made yet.
NoProbe ==
    [ld_query |-> "none", maa_found |-> FALSE, ld_running |-> TRUE,
     maa_running |-> TRUE, is_running |-> TRUE, reason |-> "unset"]

\* The clock shows the first day and the file of the next day does not
\* exist.
NoCalendar == [now |-> 0, next |-> NoRecords, date |-> None, day |-> 0]

\* No process is inside save_completion.
NoProcs == <<>>

\* `run next` was not invoked.
NoNextRun == [selected |-> 0, attempted |-> {}]

\* No CompletionManager method has been called.
NoOp ==
    [op |-> "none", name |-> 0, success |-> FALSE, include_failed |-> FALSE,
     io |-> "ok", ret |-> FALSE, all |-> <<>>, out |-> <<>>,
     raised |-> FALSE, loaded |-> "none"]

Init ==
    /\ cmd \in Commands
    /\ nPlugins \in 0 .. MaxPlugins
    /\ cur = 0
    /\ profile = NoProfile
    /\ pc = EntryPc(cmd)
    /\ bus = IdleBus
    /\ log = <<>>
    /\ canRun = "unset"
    /\ canKill = "unset"
    /\ vetoBy = 0
    /\ startResult = "unset"
    /\ killResult = "unset"
    /\ remaining = 0
    /\ failure_count = 0
    /\ monResult = "unset"
    /\ context = NoContext
    /\ exit = "running"
    /\ vin = None
    /\ vres = "unset"
    /\ slept = None
    /\ launched = {}
    /\ ledger = NoRecords
    /\ checked = "unset"
    /\ recovered = 0
    /\ completionAt = 0
    /\ notify_list = {}
    /\ lastOp = NoOp
    /\ file = "missing"
    /\ ld_model = NoLd
    /\ probe = NoProbe
    /\ scoopAt = 0
    /\ calendar = NoCalendar
    /\ procs = NoProcs
    /\ next_run = NoNextRun

\* ------------------------------------------------------ exception routing
SpPcs == {"sp_validate", "sp_gate", "sp_gated", "sp_ld", "sp_ld_launch",
          "sp_wait", "sp_sleep", "sp_maa", "sp_maa_launch", "sp_post",
          "sp_posted"}

KpPcs == {"kp_gate", "kp_gated", "kp_maa", "kp_maa_kill", "kp_ld",
          "kp_ld_kill", "kp_post", "kp_posted"}

\* An Exception raised at the current position reaches the nearest
\* enclosing `except Exception`: start_profile's (return False),
\* kill_profile's (return False), else the one of `up` (sys.exit(1)).
Propagate ==
    IF pc \in SpPcs
    THEN pc' = "sp_ret" /\ startResult' = "false"
         /\ UNCHANGED <<killResult, exit>>
    ELSE IF pc \in KpPcs
    THEN pc' = "kp_ret" /\ killResult' = "false"
         /\ UNCHANGED <<startResult, exit>>
    ELSE pc' = "done" /\ exit' = "exit1"
         /\ UNCHANGED <<startResult, killResult>>

\* SystemExit is not an Exception: no handler of the program catches it and
\* the command ends.
SystemExit ==
    pc' = "done" /\ exit' = "plugin_exit" /\ UNCHANGED <<startResult, killResult>>

\* The orchestrator runs (no bus call in progress, command not ended).
Idle == ~bus.active /\ exit = "running"

\* ------------------------------------------------- the completion ledger
\* completions[profile_name] = success, written back to today's file.
save_completion(l, name, success) ==
    [l EXCEPT ![name] = IF success THEN "success" ELSE "failed"]

\* Variant: include_failed is ignored, only a success counts.
is_completed_success_only(l, name, include_failed) == l[name] = "success"

\* status is None: False; include_failed: True; else `status is True`.
is_completed(l, name, include_failed) ==
    IF l[name] = "none" THEN FALSE
    ELSE IF include_failed THEN TRUE
    ELSE l[name] = "success"

\* Variant: the whole day's record is dropped.
reset_completion_all(l, name) == NoRecords

\* `del completions[profile_name]` when the name has a record.
reset_completion(l, name) == [l EXCEPT ![name] = "none"]

\* CheckCompletionPlugin.pre_profile_start(profile, ctx): the ledger it
\* leaves and whether it calls sys.exit(0).
completion_pre_profile_start(ctx, l) ==
    IF ctx.profile_name = 0 THEN [ledger |-> l, exits |-> FALSE]
    ELSE LET l1 == IF ctx.reset_completion
                   THEN reset_completion(l, ctx.profile_name) ELSE l
         IN IF ~ctx.by_completion THEN [ledger |-> l1, exits |-> FALSE]
            ELSE [ledger |-> l1,
                  exits |-> is_completed(l1, ctx.profile_name,
                                         ctx.include_failed)]

\* CheckCompletionPlugin.post_profile_start(profile, ctx): the ledger it
\* leaves.
completion_post_profile_start(ctx, l) ==
    IF ~ctx.by_completion THEN l
    ELSE IF ctx.profile_name = 0 THEN l
    ELSE save_completion(l, ctx.profile_name, ~ctx.profile_failed)

\* How a handler of CheckCompletionPlugin ends: pre_profile_start may call
\* sys.exit(0); post_profile_start and the handlers inherited from
\* PluginInterface return (the inherited gate predicates return True).
completion_outcome(name, ctx, l) ==
    IF name = "pre_profile_start" /\ completion_pre_profile_start(ctx, l).exits
    THEN "exit" ELSE "true"

\* The ledger a handler of CheckCompletionPlugin leaves.
completion_ledger(name, ctx, l) ==
    IF name = "pre_profile_start"
    THEN completion_pre_profile_start(ctx, l).ledger
    ELSE IF name = "post_profile_start"
    THEN completion_post_profile_start(ctx, l)
    ELSE l

\* How one execution of the handler of plugin i can end in the call in
\* progress.
HandlerOutcomes(i) ==
    IF i = completionAt
    THEN {completion_outcome(bus.name, bus.ctx, ledger)}
    ELSE IF i = scoopAt THEN {"true"}
    ELSE Outcomes(bus.kind)

\* Whether plugin i has a hook_<name> attribute for emit:
\* CheckCompletionPlugin and ScoopPlugin have none.
DefinesHook(i) == IF i \in {completionAt, scoopAt} THEN {FALSE} ELSE BOOLEAN

\* ScoopPlugin.pre_profile_start(profile, ctx): a MaaModel whose path
\* starts with "scoop" gets the installation directory as its path when
\* _resolve_scoop_path finds one.
scoop_pre_profile_start(p, resolved) ==
    IF p.maa = "scoop" /\ resolved THEN [p EXCEPT !.maa = "resolved"] ELSE p

\* Plugin i is ScoopPlugin and the call is pre_profile_start.
ScoopHandles(i) == i = scoopAt /\ bus.name = "pre_profile_start"

\* Whether _resolve_scoop_path finds the installation directory.
ScoopFinds(i) ==
    IF ScoopHandles(i) /\ profile.maa = "scoop" THEN BOOLEAN ELSE {FALSE}

\* ------------------------------------------------------- loader: one plugin
\* One iteration of the `for plugin in self.plugins` loop of emit, of a
\* lifecycle broadcast or of a gate query.
Dispatch ==
    /\ bus.active /\ exit = "running" /\ bus.idx <= nPlugins
    /\ LET i == bus.idx IN
       \E defines \in (IF bus.kind = "emit" THEN DefinesHook(i) ELSE {TRUE}) :
         IF ~defines
         THEN /\ bus' = [bus EXCEPT !.idx = i + 1, !.skipped = @ \cup {i},
                                     !.last = "skip", !.execs = 0]
              /\ UNCHANGED <<pc, startResult, killResult, exit, vetoBy,
                             ledger, profile>>
         ELSE \E acceptsVars \in AcceptsKwargs(bus.kind),
                 o1 \in HandlerOutcomes(i),
                 o2 \in HandlerOutcomes(i), resolved \in ScoopFinds(i) :
              LET c == CallWithInspection(acceptsVars, o1, o2)
                  ran == [bus EXCEPT !.called = @ \cup {i},
                                     !.last = c.final, !.execs = c.execs]
              IN
              /\ profile' = IF ScoopHandles(i)
                            THEN scoop_pre_profile_start(profile, resolved)
                            ELSE profile
              /\ ledger' = IF i = completionAt
                           THEN completion_ledger(bus.name, bus.ctx, ledger)
                           ELSE ledger
              /\ IF c.final = "exit"
                 THEN /\ bus' = [ran EXCEPT !.active = FALSE]
                      /\ SystemExit
                      /\ UNCHANGED vetoBy
                 ELSE IF bus.kind = "gate" /\ GateStops(c.final)
                 THEN /\ bus' = [ran EXCEPT !.idx = nPlugins + 1, !.answer = FALSE]
                      /\ vetoBy' = i
                      /\ UNCHANGED <<pc, startResult, killResult, exit>>
                 ELSE IF c.final = "err" /\ ~LoaderCatches(c.final)
                 THEN /\ bus' = [ran EXCEPT !.active = FALSE]
                      /\ Propagate
                      /\ UNCHANGED vetoBy
                 ELSE /\ bus' = [ran EXCEPT !.idx = i + 1]
                      /\ UNCHANGED <<pc, startResult, killResult, exit, vetoBy>>
    /\ UNCHANGED <<cmd, nPlugins, cur, log, canRun, canKill,
                   remaining, failure_count, monResult, context, vin, vres,
                   slept, launched>>
    /\ UNCHANGED <<checked, recovered>>
    /\ UNCHANGED <<completionAt, notify_list, lastOp, file, ld_model>>
    /\ UNCHANGED <<probe, scoopAt, calendar, procs, next_run>>

\* The loop is over: the loader method returns to the runner.
BusReturn ==
    /\ bus.active /\ exit = "running" /\ bus.idx > nPlugins
    /\ bus' = [IdleBus EXCEPT !.answer = bus.answer]
    /\ UNCHANGED <<cmd, nPlugins, cur, profile, pc, log, canRun, canKill,
                   vetoBy, startResult, killResult, remaining, failure_count,
                   monResult, context, exit, vin, vres, slept, launched>>
    /\ UNCHANGED <<ledger, checked, recovered>>
    /\ UNCHANGED <<completionAt, notify_list, lastOp, file, ld_model>>
    /\ UNCHANGED <<probe, scoopAt, calendar, procs, next_run>>

\* ------------------------------------------------- runner: start_profile
\* The runner calls a loader method: the call is logged and the loop starts.
CallBus(kind, name, next) ==
    /\ bus' = BusCall(kind, name)
    /\ log' = Append(log, name)
    /\ pc' = next

\* validate parameter of start_profile: `up` passes validate=False after
\* validating itself, the default is True.
ValidateParam == cmd.name = "start"

\* ld_wait of `up`, and the default wait_time of start_profile.
LdWait(c, p) ==
    IF ~IsNone(c.waittime) THEN Val(c.waittime)
    ELSE IF Truthy(p.waittime) THEN Val(p.waittime) ELSE DefaultWait

WaitTime == IF cmd.name = "up" THEN LdWait(cmd, profile) ELSE DefaultWait

\* Variant: the wait guarded by `if profile.ld:` alone.
NeedsWaitLdOnly(p) == p.ld # "none"

\* `if profile.ld and profile.maa:` before pre_wait_time and the sleep.
NeedsWait(p) == p.ld # "none" /\ p.maa # "none"

\* Variant: the ValidationError is swallowed and start_profile goes on.
SpValidateSwallow ==
    /\ Idle /\ pc = "sp_validate"
    /\ IF ValidateParam
       THEN vin' = Some(profile) /\ vres' = validate_profile(Some(profile))
       ELSE UNCHANGED <<vin, vres>>
    /\ pc' = "sp_gate"
    /\ UNCHANGED <<cmd, nPlugins, cur, profile, bus, log, canRun, canKill,
                   vetoBy, startResult, killResult, remaining, failure_count,
                   monResult, context, exit, slept, launched>>
    /\ UNCHANGED <<ledger, checked, recovered>>
    /\ UNCHANGED <<completionAt, notify_list, lastOp, file, ld_model>>
    /\ UNCHANGED <<probe, scoopAt, calendar, procs, next_run>>

\* `if validate: validate_profile(profile)`
SpValidate ==
    /\ Idle /\ pc = "sp_validate"
    /\ IF ValidateParam
       THEN /\ vin' = Some(profile)
            /\ vres' = validate_profile(Some(profile))
            /\ IF vres' # "ok"
               THEN Propagate
               ELSE pc' = "sp_gate" /\ UNCHANGED <<startResult, killResult, exit>>
       ELSE /\ pc' = "sp_gate"
            /\ UNCHANGED <<vin, vres, startResult, killResult, exit>>
    /\ UNCHANGED <<cmd, nPlugins, cur, profile, bus, log, canRun, canKill,
                   vetoBy, remaining, failure_count, monResult, context,
                   slept, launched>>
    /\ UNCHANGED <<ledger, checked, recovered>>
    /\ UNCHANGED <<completionAt, notify_list, lastOp, file, ld_model>>
    /\ UNCHANGED <<probe, scoopAt, calendar, procs, next_run>>

\* `self._can_run_profile(profile)`
SpGate ==
    /\ Idle /\ pc = "sp_gate"
    /\ CallBus("gate", "can_run_profile", "sp_gated")
    /\ vetoBy' = 0
    /\ UNCHANGED <<cmd, nPlugins, cur, profile, canRun, canKill, startResult,
                   killResult, remaining, failure_count, monResult, context,
                   exit, vin, vres, slept, launched>>
    /\ UNCHANGED <<ledger, checked, recovered>>
    /\ UNCHANGED <<completionAt, notify_list, lastOp, file, ld_model>>
    /\ UNCHANGED <<probe, scoopAt, calendar, procs, next_run>>

\* `if not ...: return False`, else the pre_profile_start broadcast
SpGated ==
    /\ Idle /\ pc = "sp_gated"
    /\ canRun' = IF bus.answer THEN "yes" ELSE "no"
    /\ IF ~bus.answer
       THEN /\ startResult' = "false" /\ pc' = "sp_ret"
            /\ UNCHANGED <<bus, log>>
       ELSE /\ CallBus("cast", "pre_profile_start", "sp_ld")
            /\ UNCHANGED startResult
    /\ UNCHANGED <<cmd, nPlugins, cur, profile, canKill, vetoBy, killResult,
                   remaining, failure_count, monResult, context, exit, vin,
                   vres, slept, launched>>
    /\ UNCHANGED <<ledger, checked, recovered>>
    /\ UNCHANGED <<completionAt, notify_list, lastOp, file, ld_model>>
    /\ UNCHANGED <<probe, scoopAt, calendar, procs, next_run>>

\* `if profile.ld: self._emit("pre_ld_start", profile)`
SpLd ==
    /\ Idle /\ pc = "sp_ld"
    /\ IF profile.ld # "none"
       THEN CallBus("emit", "pre_ld_start", "sp_ld_launch")
       ELSE pc' = "sp_wait" /\ UNCHANGED <<bus, log>>
    /\ UNCHANGED <<cmd, nPlugins, cur, profile, canRun, canKill, vetoBy,
                   startResult, killResult, remaining, failure_count,
                   monResult, context, exit, vin, vres, slept, launched>>
    /\ UNCHANGED <<ledger, checked, recovered>>
    /\ UNCHANGED <<completionAt, notify_list, lastOp, file, ld_model>>
    /\ UNCHANGED <<probe, scoopAt, calendar, procs, next_run>>

\* `self._start_ld(profile.ld)`: os.system returns (its exit status is not
\* read) or raises, which _start_ld prints and raises again.
SpLdLaunch ==
    /\ Idle /\ pc = "sp_ld_launch"
    /\ log' = Append(log, "ld_launch")
    /\ \E o \in {"ok", "raise"} :
         IF o = "raise"
         THEN Propagate /\ UNCHANGED launched
         ELSE /\ pc' = "sp_wait"
              /\ launched' = launched \cup {"ld"}
              /\ UNCHANGED <<startResult, killResult, exit>>
    /\ UNCHANGED <<cmd, nPlugins, cur, profile, bus, canRun, canKill, vetoBy,
                   remaining, failure_count, monResult, context, vin, vres,
                   slept>>
    /\ UNCHANGED <<ledger, checked, recovered>>
    /\ UNCHANGED <<completionAt, notify_list, lastOp, file, ld_model>>
    /\ UNCHANGED <<probe, scoopAt, calendar, procs, next_run>>

\* `if profile.ld and profile.maa: self._emit("pre_wait_time", profile)`
SpWait ==
    /\ Idle /\ pc = "sp_wait"
    /\ IF NeedsWait(profile)
       THEN CallBus("emit", "pre_wait_time", "sp_sleep")
       ELSE pc' = "sp_maa" /\ UNCHANGED <<bus, log>>
    /\ UNCHANGED <<cmd, nPlugins, cur, profile, canRun, canKill, vetoBy,
                   startResult, killResult, remaining, failure_count,
                   monResult, context, exit, vin, vres, slept, launched>>
    /\ UNCHANGED <<ledger, checked, recovered>>
    /\ UNCHANGED <<completionAt, notify_list, lastOp, file, ld_model>>
    /\ UNCHANGED <<probe, scoopAt, calendar, procs, next_run>>

\* `time.sleep(wait_time)`: ValueError for a negative argument.
SpSleep ==
    /\ Idle /\ pc = "sp_sleep"
    /\ IF WaitTime < 0
       THEN Propagate /\ UNCHANGED <<log, slept>>
       ELSE /\ log' = Append(log, "sleep")
            /\ slept' = Some(WaitTime)
            /\ pc' = "sp_maa"
            /\ UNCHANGED <<startResult, killResult, exit>>
    /\ UNCHANGED <<cmd, nPlugins, cur, profile, bus, canRun, canKill, vetoBy,
                   remaining, failure_count, monResult, context, vin, vres,
                   launched>>
    /\ UNCHANGED <<ledger, checked, recovered>>
    /\ UNCHANGED <<completionAt, notify_list, lastOp, file, ld_model>>
    /\ UNCHANGED <<probe, scoopAt, calendar, procs, next_run>>

\* `if profile.maa: self._emit("pre_maa_launch", profile)`
SpMaa ==
    /\ Idle /\ pc = "sp_maa"
    /\ IF profile.maa # "none"
       THEN CallBus("emit", "pre_maa_launch", "sp_maa_launch")
       ELSE pc' = "sp_post" /\ UNCHANGED <<bus, log>>
    /\ UNCHANGED <<cmd, nPlugins, cur, profile, canRun, canKill, vetoBy,
                   startResult, killResult, remaining, failure_count,
                   monResult, context, exit, vin, vres, slept, launched>>
    /\ UNCHANGED <<ledger, checked, recovered>>
    /\ UNCHANGED <<completionAt, notify_list, lastOp, file, ld_model>>
    /\ UNCHANGED <<probe, scoopAt, calendar, procs, next_run>>

\* `self._start_maa(profile.maa)`: launch_detached returns or Popen raises.
SpMaaLaunch ==
    /\ Idle /\ pc = "sp_maa_launch"
    /\ log' = Append(log, "maa_launch")
    /\ \E o \in {"ok", "raise"} :
         IF o = "raise"
         THEN Propagate /\ UNCHANGED launched
         ELSE /\ pc' = "sp_post"
              /\ launched' = launched \cup {"maa"}
              /\ UNCHANGED <<startResult, killResult, exit>>
    /\ UNCHANGED <<cmd, nPlugins, cur, profile, bus, canRun, canKill, vetoBy,
                   remaining, failure_count, monResult, context, vin, vres,
                   slept>>
    /\ UNCHANGED <<ledger, checked, recovered>>
    /\ UNCHANGED <<completionAt, notify_list, lastOp, file, ld_model>>
    /\ UNCHANGED <<probe, scoopAt, calendar, procs, next_run>>

\* `self._plugin_loader.post_profile_start(profile, self.runtime)`
SpPost ==
    /\ Idle /\ pc = "sp_post"
    /\ CallBus("cast", "post_profile_start", "sp_posted")
    /\ UNCHANGED <<cmd, nPlugins, cur, profile, canRun, canKill, vetoBy,
                   startResult, killResult, remaining, failure_count,
                   monResult, context, exit, vin, vres, slept, launched>>
    /\ UNCHANGED <<ledger, checked, recovered>>
    /\ UNCHANGED <<completionAt, notify_list, lastOp, file, ld_model>>
    /\ UNCHANGED <<probe, scoopAt, calendar, procs, next_run>>

\* `return True`
SpPosted ==
    /\ Idle /\ pc = "sp_posted"
    /\ startResult' = "true"
    /\ pc' = "sp_ret"
    /\ UNCHANGED <<cmd, nPlugins, cur, profile, bus, log, canRun, canKill,
                   vetoBy, killResult, remaining, failure_count, monResult,
                   context, exit, vin, vres, slept, launched>>
    /\ UNCHANGED <<ledger, checked, recovered>>
    /\ UNCHANGED <<completionAt, notify_list, lastOp, file, ld_model>>
    /\ UNCHANGED <<probe, scoopAt, calendar, procs, next_run>>

\* start_profile has returned: back in `up` (which ignores the value), or
\* the direct call is over.
SpRet ==
    /\ Idle /\ pc = "sp_ret"
    /\ IF cmd.name = "up"
       THEN pc' = "up_started" /\ UNCHANGED exit
       ELSE pc' = "done" /\ exit' = "returned"
    /\ UNCHANGED <<cmd, nPlugins, cur, profile, bus, log, canRun, canKill,
                   vetoBy, startResult, killResult, remaining, failure_count,
                   monResult, context, vin, vres, slept, launched>>
    /\ UNCHANGED <<ledger, checked, recovered>>
    /\ UNCHANGED <<completionAt, notify_list, lastOp, file, ld_model>>
    /\ UNCHANGED <<probe, scoopAt, calendar, procs, next_run>>

\* -------------------------------------------------- runner: kill_profile
\* `self._can_kill_profile(profile)`
KpGate ==
    /\ Idle /\ pc = "kp_gate"
    /\ CallBus("gate", "can_kill_profile", "kp_gated")
    /\ vetoBy' = 0
    /\ UNCHANGED <<cmd, nPlugins, cur, profile, canRun, canKill, startResult,
                   killResult, remaining, failure_count, monResult, context,
                   exit, vin, vres, slept, launched>>
    /\ UNCHANGED <<ledger, checked, recovered>>
    /\ UNCHANGED <<completionAt, notify_list, lastOp, file, ld_model>>
    /\ UNCHANGED <<probe, scoopAt, calendar, procs, next_run>>

\* `if not ...: return False`, else the pre_profile_kill broadcast
KpGated ==
    /\ Idle /\ pc = "kp_gated"
    /\ canKill' = IF bus.answer THEN "yes" ELSE "no"
    /\ IF ~bus.answer
       THEN /\ killResult' = "false" /\ pc' = "kp_ret"
            /\ UNCHANGED <<bus, log>>
       ELSE /\ CallBus("cast", "pre_profile_kill", "kp_maa")
            /\ UNCHANGED killResult
    /\ UNCHANGED <<cmd, nPlugins, cur, profile, canRun, vetoBy, startResult,
                   remaining, failure_count, monResult, context, exit, vin,
                   vres, slept, launched>>
    /\ UNCHANGED <<ledger, checked, recovered>>
    /\ UNCHANGED <<completionAt, notify_list, lastOp, file, ld_model>>
    /\ UNCHANGED <<probe, scoopAt, calendar, procs, next_run>>

\* `if profile.maa: self._emit("pre_maa_kill", profile)`
KpMaa ==
    /\ Idle /\ pc = "kp_maa"
    /\ IF profile.maa # "none"
       THEN CallBus("emit", "pre_maa_kill", "kp_maa_kill")
       ELSE pc' = "kp_ld" /\ UNCHANGED <<bus, log>>
    /\ UNCHANGED <<cmd, nPlugins, cur, profile, canRun, canKill, vetoBy,
                   startResult, killResult, remaining, failure_count,
                   monResult, context, exit, vin, vres, slept, launched>>
    /\ UNCHANGED <<ledger, checked, recovered>>
    /\ UNCHANGED <<completionAt, notify_list, lastOp, file, ld_model>>
    /\ UNCHANGED <<probe, scoopAt, calendar, procs, next_run>>

\* `self._kill_maa(profile.maa)`: get_maa_app_path and
\* kill_processes_by_path return or raise (Path(None) for a MaaModel
\* without path, OSError from resolve); _kill_maa has no try/except.
KpMaaKill ==
    /\ Idle /\ pc = "kp_maa_kill"
    /\ log' = Append(log, "maa_kill")
    /\ \E o \in {"ok", "raise"} :
         IF o = "raise"
         THEN Propagate /\ UNCHANGED launched
         ELSE /\ pc' = "kp_ld"
              /\ launched' = launched \ {"maa"}
              /\ UNCHANGED <<startResult, killResult, exit>>
    /\ UNCHANGED <<cmd, nPlugins, cur, profile, bus, canRun, canKill, vetoBy,
                   remaining, failure_count, monResult, context, vin, vres,
                   slept>>
    /\ UNCHANGED <<ledger, checked, recovered>>
    /\ UNCHANGED <<completionAt, notify_list, lastOp, file, ld_model>>
    /\ UNCHANGED <<probe, scoopAt, calendar, procs, next_run>>

\* `if profile.ld: self._emit("pre_ld_kill", profile)`
KpLd ==
    /\ Idle /\ pc = "kp_ld"
    /\ IF profile.ld # "none"
       THEN CallBus("emit", "pre_ld_kill", "kp_ld_kill")
       ELSE pc' = "kp_post" /\ UNCHANGED <<bus, log>>
    /\ UNCHANGED <<cmd, nPlugins, cur, profile, canRun, canKill, vetoBy,
                   startResult, killResult, remaining, failure_count,
                   monResult, context, exit, vin, vres, slept, launched>>
    /\ UNCHANGED <<ledger, checked, recovered>>
    /\ UNCHANGED <<completionAt, notify_list, lastOp, file, ld_model>>
    /\ UNCHANGED <<probe, scoopAt, calendar, procs, next_run>>

\* `self._kill_ld(profile.ld)`: an Exception is printed, not raised.
KpLdKill ==
    /\ Idle /\ pc = "kp_ld_kill"
    /\ log' = Append(log, "ld_kill")
    /\ launched' = launched \ {"ld"}
    /\ pc' = "kp_post"
    /\ UNCHANGED <<cmd, nPlugins, cur, profile, bus, canRun, canKill, vetoBy,
                   startResult, killResult, remaining, failure_count,
                   monResult, context, exit, vin, vres, slept>>
    /\ UNCHANGED <<ledger, checked, recovered>>
    /\ UNCHANGED <<completionAt, notify_list, lastOp, file, ld_model>>
    /\ UNCHANGED <<probe, scoopAt, calendar, procs, next_run>>

\* `self._plugin_loader.post_profile_kill(profile, self.runtime)`
KpPost ==
    /\ Idle /\ pc = "kp_post"
    /\ CallBus("cast", "post_profile_kill", "kp_posted")
    /\ UNCHANGED <<cmd, nPlugins, cur, profile, canRun, canKill, vetoBy,
                   startResult, killResult, remaining, failure_count,
                   monResult, context, exit, vin, vres, slept, launched>>
    /\ UNCHANGED <<ledger, checked, recovered>>
    /\ UNCHANGED <<completionAt, notify_list, lastOp, file, ld_model>>
    /\ UNCHANGED <<probe, scoopAt, calendar, procs, next_run>>

\* `return True`
KpPosted ==
    /\ Idle /\ pc = "kp_posted"
    /\ killResult' = "true"
    /\ pc' = "kp_ret"
    /\ UNCHANGED <<cmd, nPlugins, cur, profile, bus, log, canRun, canKill,
                   vetoBy, startResult, remaining, failure_count, monResult,
                   context, exit, vin, vres, slept, launched>>
    /\ UNCHANGED <<ledger, checked, recovered>>
    /\ UNCHANGED <<completionAt, notify_list, lastOp, file, ld_model>>
    /\ UNCHANGED <<probe, scoopAt, calendar, procs, next_run>>

\* kill_profile has returned to `up` or to the loop of `down`.
KpRet ==
    /\ Idle /\ pc = "kp_ret"
    /\ pc' = IF cmd.name = "up" THEN "up_loop" ELSE "down_loop"
    /\ UNCHANGED <<cmd, nPlugins, cur, profile, bus, log, canRun, canKill,
                   vetoBy, startResult, killResult, remaining, failure_count,
                   monResult, context, exit, vin, vres, slept, launched>>
    /\ UNCHANGED <<ledger, checked, recovered>>
    /\ UNCHANGED <<completionAt, notify_list, lastOp, file, ld_model>>
    /\ UNCHANGED <<probe, scoopAt, calendar, procs, next_run>>

\* ----------------------------------------------- sleep_with_countdown
\* What `ldpx console isrunning --index N` does when it is run: it prints
\* "running", "stop" or something else, it exceeds the timeout of 5
\* seconds, the utility is not installed (FileNotFoundError), or
\* subprocess.run raises another Exception.
LdQueries == {"running", "stop", "other", "timeout", "absent", "error"}

\* Variant: a query that cannot be performed reports not running.
check_ld_running_strict(p, q) ==
    IF p.ld = "none" THEN TRUE
    ELSE IF p.ld # "index" THEN TRUE
    ELSE q = "running"

\* _check_ld_running(profile), q being what the query does.
check_ld_running(p, q) ==
    IF p.ld = "none" THEN TRUE
    ELSE IF p.ld # "index" THEN TRUE
    ELSE IF q \in {"timeout", "absent", "error"} THEN TRUE
    ELSE q = "running"

\* _check_maa_running(profile), found being whether the process table
\* holds a process with the name of the executable; "no_app" is a
\* MaaModel without app.
check_maa_running(p, found) ==
    IF p.maa \in {"none", "no_app"} THEN TRUE ELSE found

\* _check_ld_running: True without an emulator spec or without an index,
\* otherwise what the console utility reports (True when it cannot be run).
LdRunningVals(p) == {check_ld_running(p, q) : q \in LdQueries}

\* _check_maa_running: True without an automation spec, otherwise whether
\* the process table holds the executable.
MaaRunningVals(p) == {check_maa_running(p, found) : found \in BOOLEAN}

\* _check_profile_running
ProfileRunning(ld_running, maa_running) == ld_running /\ maa_running

\* failure_reason of _check_profile_running, "ok" for (True, "").
FailureReason(ld_running, maa_running) ==
    IF ~ld_running /\ ~maa_running THEN "both"
    ELSE IF ~ld_running THEN "ld"
    ELSE IF ~maa_running THEN "maa"
    ELSE "ok"

\* Variant: the counter is never reset.
FailureCountNoReset(check, is_running, fc) ==
    IF check /\ ~is_running THEN fc + 1 ELSE fc

\* failure_count after one iteration: += 1 on a failed check, = 0 on a
\* check that finds the processes running, unchanged without a check.
FailureCount(check, is_running, fc) ==
    IF check /\ ~is_running THEN fc + 1
    ELSE IF check THEN 0
    ELSE fc

\* Variant: any number of failed checks ends the wait.
AbortsAtOnce(failed, fc) == failed

\* Variant: the wait ends only past max_failures.
AbortsPastTen(failed, fc) == failed /\ fc > max_failures

\* `if failure_count >= max_failures: return False`, after a failed check.
Aborts(failed, fc) == failed /\ fc >= max_failures

\* Variant: a check on every iteration.
ChecksEveryTick(r) == TRUE

\* Variant: the checks are placed by the seconds elapsed, not remaining.
ChecksByElapsed(r) == (r - 1) % CheckEvery = 0

\* `remaining % 10 == 0` (profile is never None or falsy here).
Checks(r) == r % CheckEvery = 0

\* Variant: the loop ends one iteration early.
LastIterationAtTwo(r) == r <= 2

\* `range(seconds, 0, -1)` is exhausted by the iteration with remaining 1.
LastIteration(r) == r = 1

\* One iteration of `for remaining in range(seconds, 0, -1)`.  The locals
\* remaining and failure_count end with the call, and so does the record
\* of the last recovery.
MonTick ==
    /\ Idle /\ pc = "mon" /\ remaining >= 1
    /\ \E ld_running \in LdRunningVals(profile),
          maa_running \in MaaRunningVals(profile) :
         LET check == Checks(remaining)
             is_running == ProfileRunning(ld_running, maa_running)
             failed == check /\ ~is_running
             fc == FailureCount(check, is_running, failure_count)
         IN /\ checked' = IF check THEN FailureReason(ld_running, maa_running)
                           ELSE checked
            /\ IF Aborts(failed, fc)
               THEN /\ monResult' = "false" /\ pc' = "up_monitored"
                    /\ remaining' = 0 /\ failure_count' = 0
                    /\ recovered' = 0
               ELSE IF LastIteration(remaining)
               THEN /\ monResult' = "true" /\ pc' = "up_monitored"
                    /\ remaining' = 0 /\ failure_count' = 0
                    /\ recovered' = 0
               ELSE /\ remaining' = remaining - 1
                    /\ failure_count' = fc
                    /\ recovered' = IF check /\ is_running /\ failure_count > 0
                                     THEN failure_count ELSE recovered
                    /\ UNCHANGED <<monResult, pc>>
    /\ UNCHANGED <<cmd, nPlugins, cur, profile, bus, log, canRun, canKill,
                   vetoBy, startResult, killResult, context, exit, vin, vres,
                   slept, launched>>
    /\ UNCHANGED ledger
    /\ UNCHANGED <<completionAt, notify_list, lastOp, file, ld_model>>
    /\ UNCHANGED <<probe, scoopAt, calendar, procs, next_run>>

\* Variant: no `except KeyboardInterrupt:`; the interrupt leaves the
\* function and the command.
MonInterruptUncaught ==
    /\ Idle /\ pc = "mon"
    /\ pc' = "done"
    /\ exit' = "raised"
    /\ remaining' = 0
    /\ failure_count' = 0
    /\ recovered' = 0
    /\ UNCHANGED <<cmd, nPlugins, cur, profile, bus, log, canRun, canKill,
                   vetoBy, startResult, killResult, context, monResult, vin,
                   vres, slept, launched, ledger, checked, completionAt,
                   notify_list, lastOp, file, ld_model, probe, scoopAt,
                   calendar, procs, next_run>>

\* `except KeyboardInterrupt:` prints and falls off the function: None.
MonInterrupt ==
    /\ Idle /\ pc = "mon"
    /\ monResult' = "none"
    /\ pc' = "up_monitored"
    /\ remaining' = 0
    /\ failure_count' = 0
    /\ UNCHANGED <<cmd, nPlugins, cur, profile, bus, log, canRun, canKill,
                   vetoBy, startResult, killResult, context, exit, vin, vres,
                   slept, launched>>
    /\ recovered' = 0
    /\ UNCHANGED <<ledger, checked>>
    /\ UNCHANGED <<completionAt, notify_list, lastOp, file, ld_model>>
    /\ UNCHANGED <<probe, scoopAt, calendar, procs, next_run>>

\* ------------------------------------------------------------ cli: run up
\* A new profile is taken up: what was recorded for the previous one goes.
ResetRun ==
    /\ log' = <<>>
    /\ canRun' = "unset"
    /\ canKill' = "unset"
    /\ vetoBy' = 0
    /\ startResult' = "unset"
    /\ killResult' = "unset"
    /\ remaining' = 0
    /\ failure_count' = 0
    /\ monResult' = "unset"
    /\ slept' = None
    /\ launched' = {}
    /\ checked' = "unset"
    /\ recovered' = 0

\* set_context of lines 42-44: the current profile's name is written.
WithProfileName(c, name) == [c EXCEPT !.profile_name = name]

\* set_context of lines 66-69: the failure is written.
WithFailure(c, name) ==
    [c EXCEPT !.profile_failed = TRUE, !.profile_name = name]

\* `for profile_name in profiles:` is exhausted: the command returns.
UpDone ==
    /\ Idle /\ pc = "up_loop" /\ cur = cmd.n
    /\ pc' = "done"
    /\ exit' = "exit0"
    /\ UNCHANGED <<cmd, nPlugins, cur, profile, bus, log, canRun, canKill,
                   vetoBy, startResult, killResult, remaining, failure_count,
                   monResult, context, vin, vres, slept, launched>>
    /\ UNCHANGED <<ledger, checked, recovered>>
    /\ UNCHANGED <<completionAt, notify_list, lastOp, file, ld_model>>
    /\ UNCHANGED <<probe, scoopAt, calendar, procs, next_run>>

\* Next profile name: get_profile (FileNotFoundError: exit 1), the context
\* gets the name, validate_profile (ValidationError: exit 1), then
\* start_profile(profile, wait_time=ld_wait, validate=False) is entered.
\* U is the set the profile files are drawn from.
UpBeginWith(U) ==
    /\ Idle /\ pc = "up_loop" /\ cur < cmd.n
    /\ cur' = cur + 1
    /\ ResetRun
    /\ \/ /\ pc' = "done" /\ exit' = "exit1"
          /\ UNCHANGED <<profile, context, vin, vres>>
       \/ \E p \in U :
          /\ profile' = p
          /\ context' = WithProfileName(context, cur + 1)
          /\ vin' = Some(p)
          /\ vres' = validate_profile(Some(p))
          /\ IF vres' # "ok"
             THEN pc' = "done" /\ exit' = "exit1"
             ELSE pc' = "sp_validate" /\ UNCHANGED exit
    /\ UNCHANGED <<cmd, nPlugins, bus>>
    /\ UNCHANGED ledger
    /\ UNCHANGED <<completionAt, notify_list, lastOp, file, ld_model>>
    /\ UNCHANGED <<probe, scoopAt, calendar, procs, next_run>>

UpBegin == UpBeginWith(Profiles)

\* Variant: without a lifetime the kill follows the start at once.
UpStartedKillsAtOnce ==
    /\ Idle /\ pc = "up_started"
    /\ IF cmd.kill \/ cmd.kill_all
       THEN IF Truthy(profile.lifetime) /\ Val(profile.lifetime) > 0
            THEN /\ remaining' = Val(profile.lifetime)
                 /\ failure_count' = 0
                 /\ pc' = "mon"
                 /\ UNCHANGED monResult
            ELSE /\ monResult' = "true" /\ pc' = "up_monitored"
                 /\ UNCHANGED <<remaining, failure_count>>
       ELSE /\ pc' = "up_loop"
            /\ UNCHANGED <<remaining, failure_count, monResult>>
    /\ UNCHANGED <<cmd, nPlugins, cur, profile, bus, log, canRun, canKill,
                   vetoBy, startResult, killResult, context, exit, vin, vres,
                   slept, launched>>
    /\ UNCHANGED <<ledger, checked, recovered>>
    /\ UNCHANGED <<completionAt, notify_list, lastOp, file, ld_model>>
    /\ UNCHANGED <<probe, scoopAt, calendar, procs, next_run>>

\* After start_profile: `if kill or kill_all:` / `if profile.lifetime:`
\* enters sleep_with_countdown(profile.lifetime, profile, ...), which
\* returns True at once for seconds <= 0; without a lifetime the `else:`
\* prints the warning and the loop goes on.
UpStarted ==
    /\ Idle /\ pc = "up_started"
    /\ IF (cmd.kill \/ cmd.kill_all) /\ Truthy(profile.lifetime)
       THEN /\ IF Val(profile.lifetime) <= 0
               THEN /\ monResult' = "true" /\ pc' = "up_monitored"
                    /\ UNCHANGED <<remaining, failure_count>>
               ELSE /\ remaining' = Val(profile.lifetime)
                    /\ failure_count' = 0
                    /\ pc' = "mon"
                    /\ UNCHANGED monResult
            /\ UNCHANGED log
       ELSE /\ pc' = "up_loop"
            /\ log' = IF cmd.kill \/ cmd.kill_all
                      THEN Append(log, "no_lifetime_warning") ELSE log
            /\ UNCHANGED <<remaining, failure_count, monResult>>
    /\ UNCHANGED <<cmd, nPlugins, cur, profile, bus, canRun, canKill,
                   vetoBy, startResult, killResult, context, exit, vin, vres,
                   slept, launched>>
    /\ UNCHANGED <<ledger, checked, recovered>>
    /\ UNCHANGED <<completionAt, notify_list, lastOp, file, ld_model>>
    /\ UNCHANGED <<probe, scoopAt, calendar, procs, next_run>>

\* Variant: the kill follows the wait however it ended.
UpMonitoredKillsAlways ==
    /\ Idle /\ pc = "up_monitored"
    /\ pc' = IF cmd.kill_all THEN "down_all" ELSE "kp_gate"
    /\ UNCHANGED <<context, bus, log>>
    /\ UNCHANGED <<cmd, nPlugins, cur, profile, canRun, canKill, vetoBy,
                   startResult, killResult, remaining, failure_count,
                   monResult, exit, vin, vres, slept, launched>>
    /\ UNCHANGED <<ledger, checked, recovered>>
    /\ UNCHANGED <<completionAt, notify_list, lastOp, file, ld_model>>
    /\ UNCHANGED <<probe, scoopAt, calendar, procs, next_run>>

\* `if not success:` marks the failure and calls notify_profile_failure,
\* which broadcasts post_profile_start; otherwise kill_all invokes `down`
\* without arguments and kill calls kill_profile.
UpMonitored ==
    /\ Idle /\ pc = "up_monitored"
    /\ IF monResult # "true"
       THEN /\ context' = WithFailure(context, cur)
            /\ CallBus("cast", "post_profile_start", "up_failed")
       ELSE /\ pc' = IF cmd.kill_all THEN "down_all" ELSE "kp_gate"
            /\ UNCHANGED <<context, bus, log>>
    /\ UNCHANGED <<cmd, nPlugins, cur, profile, canRun, canKill, vetoBy,
                   startResult, killResult, remaining, failure_count,
                   monResult, exit, vin, vres, slept, launched>>
    /\ UNCHANGED <<ledger, checked, recovered>>
    /\ UNCHANGED <<completionAt, notify_list, lastOp, file, ld_model>>
    /\ UNCHANGED <<probe, scoopAt, calendar, procs, next_run>>

\* `sys.exit(1)` after the failure was notified.
UpFailed ==
    /\ Idle /\ pc = "up_failed"
    /\ pc' = "done"
    /\ exit' = "exit1"
    /\ UNCHANGED <<cmd, nPlugins, cur, profile, bus, log, canRun, canKill,
                   vetoBy, startResult, killResult, remaining, failure_count,
                   monResult, context, vin, vres, slept, launched>>
    /\ UNCHANGED <<ledger, checked, recovered>>
    /\ UNCHANGED <<completionAt, notify_list, lastOp, file, ld_model>>
    /\ UNCHANGED <<probe, scoopAt, calendar, procs, next_run>>

\* ---------------------------------------------------------- cli: run down
\* `down` without profile names.  `for name, model in
\* profile_resolver.list_all_profiles():` iterates the keys of a dict, so
\* unpacking a name that is not two characters long raises ValueError
\* (caught: exit 1) and a two-character name yields no model with a maa
\* attribute: either the command exits before anything is stopped, or only
\* `ldpx console quitall` is issued.
DownAll ==
    /\ Idle /\ pc = "down_all"
    /\ \E o \in {"quitall", "valueerror"} :
         IF o = "valueerror"
         THEN /\ pc' = "done" /\ exit' = "exit1"
              /\ UNCHANGED <<log, launched>>
         ELSE /\ log' = Append(log, "ld_quitall")
              /\ launched' = launched \ {"ld"}
              /\ IF cmd.name = "up"
                 THEN pc' = "up_loop" /\ UNCHANGED exit
                 ELSE pc' = "done" /\ exit' = "exit0"
    /\ UNCHANGED <<cmd, nPlugins, cur, profile, bus, canRun, canKill, vetoBy,
                   startResult, killResult, remaining, failure_count,
                   monResult, context, vin, vres, slept>>
    /\ UNCHANGED <<ledger, checked, recovered>>
    /\ UNCHANGED <<completionAt, notify_list, lastOp, file, ld_model>>
    /\ UNCHANGED <<probe, scoopAt, calendar, procs, next_run>>

\* The loop over the named profiles is exhausted.
DownDone ==
    /\ Idle /\ pc = "down_loop" /\ cur = cmd.n
    /\ pc' = "done"
    /\ exit' = "exit0"
    /\ UNCHANGED <<cmd, nPlugins, cur, profile, bus, log, canRun, canKill,
                   vetoBy, startResult, killResult, remaining, failure_count,
                   monResult, context, vin, vres, slept, launched>>
    /\ UNCHANGED <<ledger, checked, recovered>>
    /\ UNCHANGED <<completionAt, notify_list, lastOp, file, ld_model>>
    /\ UNCHANGED <<probe, scoopAt, calendar, procs, next_run>>

\* Next profile name: get_profile (an Exception is printed and the loop
\* goes on), then runner.kill_profile(profile).
DownBegin ==
    /\ Idle /\ pc = "down_loop" /\ cur < cmd.n
    /\ cur' = cur + 1
    /\ ResetRun
    /\ \/ pc' = "down_loop" /\ UNCHANGED profile
       \/ \E p \in Profiles : profile' = p /\ pc' = "kp_gate"
    /\ UNCHANGED <<cmd, nPlugins, bus, context, exit, vin, vres>>
    /\ UNCHANGED ledger
    /\ UNCHANGED <<completionAt, notify_list, lastOp, file, ld_model>>
    /\ UNCHANGED <<probe, scoopAt, calendar, procs, next_run>>

\* ------------------------------------------- direct call of start_profile
\* runner.start_profile(profile) with the defaults wait_time=15,
\* validate=True.
StartCall ==
    /\ Idle /\ pc = "start_call"
    /\ cur' = 1
    /\ \E p \in Profiles : profile' = p
    /\ pc' = "sp_validate"
    /\ UNCHANGED <<cmd, nPlugins, bus, log, canRun, canKill, vetoBy,
                   startResult, killResult, remaining, failure_count,
                   monResult, context, exit, vin, vres, slept, launched>>
    /\ UNCHANGED <<ledger, checked, recovered>>
    /\ UNCHANGED <<completionAt, notify_list, lastOp, file, ld_model>>
    /\ UNCHANGED <<probe, scoopAt, calendar, procs, next_run>>

\* ---------------------------------------------------------- specification
Next ==
    \/ Dispatch \/ BusReturn
    \/ SpValidate \/ SpGate \/ SpGated \/ SpLd \/ SpLdLaunch \/ SpWait
    \/ SpSleep \/ SpMaa \/ SpMaaLaunch \/ SpPost \/ SpPosted \/ SpRet
    \/ KpGate \/ KpGated \/ KpMaa \/ KpMaaKill \/ KpLd \/ KpLdKill
    \/ KpPost \/ KpPosted \/ KpRet
    \/ MonTick \/ MonInterrupt
    \/ UpDone \/ UpBegin \/ UpStarted \/ UpMonitored \/ UpFailed
    \/ DownAll \/ DownDone \/ DownBegin
    \/ StartCall

Spec == Init /\ [][Next]_vars

\* ------------------------------- specification of `up` with long lifetimes
\* `run up p --kill` / `--kill-all` of one profile whose lifetime is long
\* enough for max_failures liveness checks (the shortest such lifetime),
\* with `--var by-completion`, the profile on today's notify list or not.
\* The emulator is given by index, the one kind whose liveness the monitor
\* checks.
LongLifetime == max_failures * CheckEvery

LongProfiles ==
    [ld : {"index"}, maa : {"none", "ok"},
     lifetime : {Some(LongLifetime)}, waittime : {None}]

UpCommands ==
    {c \in Commands : c.name = "up" /\ (c.kill \/ c.kill_all) /\ c.n = 1
                      /\ IsNone(c.waittime)}

\* set_context({'vars': vars_dict}) of main: the --var options.
WithVars(c, by_completion) == [c EXCEPT !.by_completion = by_completion]

\* Everything but the command, the plugins, the position and the context.
Fresh ==
    /\ cur = 0
    /\ profile = NoProfile
    /\ bus = IdleBus
    /\ log = <<>>
    /\ canRun = "unset"
    /\ canKill = "unset"
    /\ vetoBy = 0
    /\ startResult = "unset"
    /\ killResult = "unset"
    /\ remaining = 0
    /\ failure_count = 0
    /\ monResult = "unset"
    /\ exit = "running"
    /\ vin = None
    /\ vres = "unset"
    /\ slept = None
    /\ launched = {}
    /\ ledger = NoRecords
    /\ checked = "unset"
    /\ recovered = 0
    /\ lastOp = NoOp
    /\ file = "missing"
    /\ ld_model = NoLd
    /\ probe = NoProbe
    /\ calendar = NoCalendar
    /\ procs = NoProcs
    /\ next_run = NoNextRun

\* `run notify p` was or was not given earlier in the day for the profile
\* of the command.
NotifyLists == {{}, {1}}

InitUp ==
    /\ cmd \in UpCommands
    /\ nPlugins \in 0 .. MaxPlugins
    /\ pc = EntryPc(cmd)
    /\ context = WithVars(NoContext, TRUE)
    /\ completionAt \in 0 .. nPlugins
    /\ notify_list \in NotifyLists
    /\ scoopAt = 0
    /\ Fresh

UpBeginLong == UpBeginWith(LongProfiles)

NextUp ==
    \/ Dispatch \/ BusReturn
    \/ SpValidate \/ SpGate \/ SpGated \/ SpLd \/ SpLdLaunch \/ SpWait
    \/ SpSleep \/ SpMaa \/ SpMaaLaunch \/ SpPost \/ SpPosted \/ SpRet
    \/ KpGate \/ KpGated \/ KpMaa \/ KpMaaKill \/ KpLd \/ KpLdKill
    \/ KpPost \/ KpPosted \/ KpRet
    \/ MonTick \/ MonInterrupt
    \/ UpDone \/ UpBeginLong \/ UpStarted \/ UpMonitored \/ UpFailed
    \/ DownAll

SpecUp == InitUp /\ [][NextUp]_vars

\* --------------------------------- specification of sleep_with_countdown
\* sleep_with_countdown(seconds, profile, prefix) called on its own; the
\* argument seconds is the lifetime of the profile, as in `up`.
MonitorSeconds == {-1, 0, 1, 30, 100, 120}

MonitorProfiles ==
    [ld : LdKinds, maa : {"none", "ok"},
     lifetime : {Some(v) : v \in MonitorSeconds}, waittime : {None}]

MonitorCommand ==
    [name |-> "monitor", kill |-> FALSE, kill_all |-> FALSE,
     waittime |-> None, n |-> 0]

InitMonitor ==
    /\ cmd = MonitorCommand
    /\ nPlugins = 0
    /\ pc = "mon_call"
    /\ context = NoContext
    /\ completionAt = 0
    /\ notify_list = {}
    /\ scoopAt = 0
    /\ Fresh

\* The call: `if seconds <= 0: return True`, else the loop is entered with
\* failure_count = 0.
MonCall ==
    /\ pc = "mon_call"
    /\ \E p \in MonitorProfiles :
         /\ profile' = p
         /\ IF Val(p.lifetime) <= 0
            THEN /\ monResult' = "true" /\ pc' = "up_monitored"
                 /\ UNCHANGED <<remaining, failure_count>>
            ELSE /\ remaining' = Val(p.lifetime)
                 /\ failure_count' = 0
                 /\ pc' = "mon"
                 /\ UNCHANGED monResult
    /\ UNCHANGED <<cmd, nPlugins, cur, bus, log, canRun, canKill, vetoBy,
                   startResult, killResult, context, exit, vin, vres, slept,
                   launched, ledger, checked, recovered>>
    /\ UNCHANGED <<completionAt, notify_list, lastOp, file, ld_model>>
    /\ UNCHANGED <<probe, scoopAt, calendar, procs, next_run>>

NextMonitor == MonCall \/ MonTick \/ MonInterrupt

SpecMonitor == InitMonitor /\ [][NextMonitor]_vars

\* The loop body always gets to run: time.sleep(1) returns.
SpecMonitorFair == SpecMonitor /\ WF_vars(MonTick)

\* ------------------------------ specification of _check_profile_running
\* _check_profile_running(profile) called on its own, for a profile with
\* any emulator spec and any automation spec, whatever the emulator
\* console and the process table answer.
ProbeProfiles ==
    [ld : LdKinds, maa : {"none", "no_app", "ok"}, lifetime : {None},
     waittime : {None}]

ProbeCommand ==
    [name |-> "probe", kill |-> FALSE, kill_all |-> FALSE,
     waittime |-> None, n |-> 0]

InitProbe ==
    /\ cmd = ProbeCommand
    /\ nPlugins = 0
    /\ pc = "probe"
    /\ context = NoContext
    /\ completionAt = 0
    /\ notify_list = {}
    /\ scoopAt = 0
    /\ Fresh

\* One call: both sub-checks are made, then the pair is returned.
ProbeCall ==
    /\ pc = "probe"
    /\ \E p \in ProbeProfiles, q \in LdQueries, found \in BOOLEAN :
         LET ld_running == check_ld_running(p, q)
             maa_running == check_maa_running(p, found)
         IN /\ profile' = p
            /\ probe' = [ld_query |-> q, maa_found |-> found,
                         ld_running |-> ld_running,
                         maa_running |-> maa_running,
                         is_running |-> ProfileRunning(ld_running, maa_running),
                         reason |-> FailureReason(ld_running, maa_running)]
    /\ UNCHANGED <<cmd, nPlugins, cur, pc, bus, log, canRun, canKill, vetoBy,
                   startResult, killResult, remaining, failure_count,
                   monResult, context, exit, vin, vres, slept, launched,
                   ledger, checked, recovered>>
    /\ UNCHANGED <<completionAt, notify_list, lastOp, file, ld_model>>
    /\ UNCHANGED <<scoopAt, calendar, procs, next_run>>

NextProbe == ProbeCall

SpecProbe == InitProbe /\ [][NextProbe]_vars

\* ------------------------------------ specification of the launch wait
\* `run up p [--waittime N]` of one profile with both specs, so that
\* start_profile sleeps between the launches; the profile file gives no
\* waittime, 0 or 3, the command line no override, 0 or 7.
WaitProfiles ==
    [ld : {"index", "name"}, maa : {"ok"}, lifetime : {None},
     waittime : OptOf({0, 3})]

WaitCommands ==
    [name : {"up"}, kill : {FALSE}, kill_all : {FALSE},
     waittime : OptOf({0, 7}), n : {1}]

InitWait ==
    /\ cmd \in WaitCommands
    /\ nPlugins \in 0 .. MaxPlugins
    /\ pc = "up_loop"
    /\ context = NoContext
    /\ completionAt = 0
    /\ notify_list = {}
    /\ scoopAt = 0
    /\ Fresh

UpBeginWait == UpBeginWith(WaitProfiles)

NextWait ==
    \/ Dispatch \/ BusReturn
    \/ SpValidate \/ SpGate \/ SpGated \/ SpLd \/ SpLdLaunch \/ SpWait
    \/ SpSleep \/ SpMaa \/ SpMaaLaunch \/ SpPost \/ SpPosted \/ SpRet
    \/ UpDone \/ UpBeginWait \/ UpStarted

SpecWait == InitWait /\ [][NextWait]_vars

\* ------------------------------- specification of a second run in a day
\* `run up p --var by-completion=true [--var include-failed=true]` of one
\* valid profile, with the completion plugin loaded, on a day whose
\* completion file has any record for each profile.
DayProfiles ==
    [ld : {"index", "name"}, maa : {"none", "ok"}, lifetime : {None},
     waittime : {None}]

DayCommands ==
    [name : {"up"}, kill : {FALSE}, kill_all : {FALSE}, waittime : {None},
     n : {1}]

\* set_context({'vars': vars_dict}) of main with by-completion=true.
DayContexts ==
    {[WithVars(NoContext, TRUE) EXCEPT !.include_failed = f] : f \in BOOLEAN}

InitDay ==
    /\ cmd \in DayCommands
    /\ nPlugins \in 1 .. MaxPlugins
    /\ pc = "up_loop"
    /\ context \in DayContexts
    /\ completionAt \in 1 .. nPlugins
    /\ notify_list = {}
    /\ ledger \in [Names -> {"none", "success", "failed"}]
    /\ cur = 0
    /\ profile = NoProfile
    /\ bus = IdleBus
    /\ log = <<>>
    /\ canRun = "unset"
    /\ canKill = "unset"
    /\ vetoBy = 0
    /\ startResult = "unset"
    /\ killResult = "unset"
    /\ remaining = 0
    /\ failure_count = 0
    /\ monResult = "unset"
    /\ exit = "running"
    /\ vin = None
    /\ vres = "unset"
    /\ slept = None
    /\ launched = {}
    /\ checked = "unset"
    /\ recovered = 0
    /\ lastOp = NoOp
    /\ file = "object"
    /\ ld_model = NoLd
    /\ probe = NoProbe
    /\ scoopAt = 0
    /\ calendar = NoCalendar
    /\ procs = NoProcs
    /\ next_run = NoNextRun

UpBeginDay == UpBeginWith(DayProfiles)

NextDay ==
    \/ Dispatch \/ BusReturn
    \/ SpValidate \/ SpGate \/ SpGated \/ SpLd \/ SpLdLaunch \/ SpWait
    \/ SpSleep \/ SpMaa \/ SpMaaLaunch \/ SpPost \/ SpPosted \/ SpRet
    \/ UpDone \/ UpBeginDay \/ UpStarted

SpecDay == InitDay /\ [][NextDay]_vars

\* --------------------------- specification of a run with the scoop plugin
\* `run up p [--kill]` of one profile whose automation path is a
\* directory or starts with "scoop", with ScoopPlugin among the plugins.
ScoopProfiles ==
    [ld : {"none", "index"}, maa : {"ok", "scoop"},
     lifetime : OptOf({2}), waittime : {None}]

ScoopCommands ==
    [name : {"up"}, kill : BOOLEAN, kill_all : {FALSE}, waittime : {None},
     n : {1}]

InitScoop ==
    /\ cmd \in ScoopCommands
    /\ nPlugins \in 1 .. MaxPlugins
    /\ pc = "up_loop"
    /\ context = NoContext
    /\ completionAt = 0
    /\ notify_list = {}
    /\ scoopAt \in 1 .. nPlugins
    /\ Fresh

UpBeginScoop == UpBeginWith(ScoopProfiles)

NextScoop ==
    \/ Dispatch \/ BusReturn
    \/ SpValidate \/ SpGate \/ SpGated \/ SpLd \/ SpLdLaunch \/ SpWait
    \/ SpSleep \/ SpMaa \/ SpMaaLaunch \/ SpPost \/ SpPosted \/ SpRet
    \/ KpGate \/ KpGated \/ KpMaa \/ KpMaaKill \/ KpLd \/ KpLdKill
    \/ KpPost \/ KpPosted \/ KpRet
    \/ MonTick \/ MonInterrupt
    \/ UpDone \/ UpBeginScoop \/ UpStarted \/ UpMonitored \/ UpFailed

SpecScoop == InitScoop /\ [][NextScoop]_vars

\* ------------------------------------------------ models: LDModel objects
\* Values of the two fields in a dictionary handed to create or update: an
\* index is None or an int, a name is None, "" or a non-empty string.
LdIndexVals == OptOf({0, 1, 2})
LdNameVals == OptOf({"", "a", "b"})

\* A dictionary: each of the keys index and name is absent (None here) or
\* holds a value (Some), and a key that is no field of LDModel is present
\* or not.
LdData ==
    [index : OptOf(LdIndexVals), name : OptOf(LdNameVals), other : BOOLEAN]

\* dict.get(key), None for an absent key: the default of the field.
FieldOr(entry, default) == IF IsNone(entry) THEN default ELSE Val(entry)

\* `not self.name`: None or the empty string.
NameFalsy(name) == IsNone(name) \/ Val(name) = ""

\* LDModel.__post_init__: the ValueError raised, or "none".
ld_post_init(index, name) ==
    IF NameFalsy(name) /\ IsNone(index) THEN "neither"
    ELSE IF ~NameFalsy(name) /\ ~IsNone(index) THEN "both"
    ELSE "none"

\* Constructing and updating a model touches nothing else.
LdUnchanged ==
    UNCHANGED <<cmd, nPlugins, cur, profile, pc, bus, log, canRun, canKill,
                vetoBy, startResult, killResult, remaining, failure_count,
                monResult, context, exit, vin, vres, slept, launched, ledger,
                checked, recovered, completionAt, notify_list, lastOp, file,
                probe, scoopAt, calendar, procs, next_run>>

\* BaseModel.create(data) for LDModel: cls(**valid_fields) runs
\* __post_init__; the keys that are no fields go to instance.extra.
LdCreate ==
    /\ pc = "ld"
    /\ \E data \in LdData :
         LET index == FieldOr(data.index, None)
             name == FieldOr(data.name, None)
             err == ld_post_init(index, name)
         IN ld_model' =
                IF err # "none"
                THEN [ld_model EXCEPT !.raised = err, !.call = "create"]
                ELSE [obj |-> Some([index |-> index, name |-> name,
                                    extra |-> data.other]),
                      raised |-> "none", call |-> "create"]
    /\ LdUnchanged

\* BaseModel.update(data) on the object: setattr for every key that is a
\* field, self.extra = the other keys; nothing is validated.
LdUpdate ==
    /\ pc = "ld" /\ ~IsNone(ld_model.obj)
    /\ \E data \in LdData :
         LET o == Val(ld_model.obj)
         IN ld_model' =
                [obj |-> Some([index |-> FieldOr(data.index, o.index),
                               name |-> FieldOr(data.name, o.name),
                               extra |-> data.other]),
                 raised |-> "none", call |-> "update"]
    /\ LdUnchanged

LdCommand ==
    [name |-> "ld", kill |-> FALSE, kill_all |-> FALSE,
     waittime |-> None, n |-> 0]

InitLd ==
    /\ cmd = LdCommand
    /\ nPlugins = 0
    /\ pc = "ld"
    /\ context = NoContext
    /\ completionAt = 0
    /\ notify_list = {}
    /\ scoopAt = 0
    /\ Fresh

NextLd == LdCreate \/ LdUpdate

SpecLd == InitLd /\ [][NextLd]_vars

\* ------------------------------------------------- CompletionManager calls
\* The methods of CompletionManager called one after the other on one
\* day's file, as `run next`, `run notify` and the plugin's handlers do.
LedgerCommand ==
    [name |-> "ledger", kill |-> FALSE, kill_all |-> FALSE,
     waittime |-> None, n |-> 0]

\* `with open(completion_file, 'w') as f: json.dump(completions, f)`: the
\* file is written; or open raises IOError and the file stays as it was;
\* or the write raises IOError after open has truncated the file.
WriteOutcomes == {"ok", "open_fails", "write_fails"}

\* What load_completions returns after the write of `new` over `old`: a
\* truncated file is not valid JSON and is read as {}.
Written(old, new, io) ==
    IF io = "ok" THEN new
    ELSE IF io = "open_fails" THEN old
    ELSE NoRecords

\* The file after a write: written as a JSON object; as it was; or
\* truncated by the open and holding what was written before the error.
FileAfter(f, io) ==
    IF io = "ok" THEN "object"
    ELSE IF io = "open_fails" THEN f
    ELSE "truncated"

InitLedger ==
    /\ cmd = LedgerCommand
    /\ nPlugins = 0
    /\ pc = "ledger"
    /\ context = NoContext
    /\ completionAt = 0
    /\ notify_list = {}
    /\ scoopAt = 0
    /\ Fresh

LedgerUnchanged ==
    UNCHANGED <<cmd, nPlugins, cur, profile, pc, bus, log, canRun, canKill,
                vetoBy, startResult, killResult, remaining, failure_count,
                monResult, context, exit, vin, vres, slept, launched,
                checked, recovered, completionAt, notify_list, ld_model,
                probe, scoopAt, calendar, procs, next_run>>

\* save_completion(profile_name, success): IOError is printed, not raised.
LedgerSave ==
    /\ pc = "ledger"
    /\ \E name \in Names, success \in BOOLEAN, io \in WriteOutcomes :
         /\ ledger' = Written(ledger, save_completion(ledger, name, success),
                              io)
         /\ file' = FileAfter(file, io)
         /\ lastOp' = [NoOp EXCEPT !.op = "save", !.name = name,
                                   !.success = success, !.io = io]
    /\ LedgerUnchanged

\* reset_completion(profile_name): writes only if the name has a record,
\* returns True if the record was deleted and the file written.
LedgerReset ==
    /\ pc = "ledger"
    /\ \E name \in Names, io \in WriteOutcomes :
         IF ledger[name] = "none"
         THEN /\ io = "ok"
              /\ UNCHANGED <<ledger, file>>
              /\ lastOp' = [NoOp EXCEPT !.op = "reset", !.name = name]
         ELSE /\ ledger' = Written(ledger, reset_completion(ledger, name),
                                   io)
              /\ file' = FileAfter(file, io)
              /\ lastOp' = [NoOp EXCEPT !.op = "reset", !.name = name,
                                        !.io = io, !.ret = (io = "ok")]
    /\ LedgerUnchanged

\* is_completed(profile_name, include_failed)
LedgerIsCompleted ==
    /\ pc = "ledger"
    /\ \E name \in Names, include_failed \in BOOLEAN :
         lastOp' = [NoOp EXCEPT
                        !.op = "is_completed", !.name = name,
                        !.include_failed = include_failed,
                        !.ret = is_completed(ledger, name, include_failed)]
    /\ UNCHANGED <<ledger, file>>
    /\ LedgerUnchanged

\* Longest list of profile names handed to get_incomplete_profiles.
MaxList == 3

RECURSIVE ListsUpTo(_)
ListsUpTo(k) ==
    IF k = 0 THEN {<<>>}
    ELSE LET shorter == ListsUpTo(k - 1)
         IN shorter \cup {Append(l, n) : l \in shorter, n \in Names}

\* all_profiles: names in any order, a name possibly more than once.
AllProfileLists == ListsUpTo(MaxList)

\* Variant: the names not completed in the order of all_profiles.
get_incomplete_profiles_unsorted(l, all_profiles, include_failed) ==
    SelectSeq(all_profiles, LAMBDA n : ~is_completed(l, n, include_failed))

\* never_run + failed: the loop skips the completed names and appends a
\* name whose status `is False` to failed, any other to never_run.
get_incomplete_profiles(l, all_profiles, include_failed) ==
    LET never_run ==
            SelectSeq(all_profiles,
                      LAMBDA n : /\ ~is_completed(l, n, include_failed)
                                 /\ l[n] # "failed")
        failed ==
            SelectSeq(all_profiles,
                      LAMBDA n : /\ ~is_completed(l, n, include_failed)
                                 /\ l[n] = "failed")
    IN never_run \o failed

\* get_incomplete_profiles(all_profiles, include_failed)
LedgerIncomplete ==
    /\ pc = "ledger"
    /\ \E all_profiles \in AllProfileLists, include_failed \in BOOLEAN :
         lastOp' = [NoOp EXCEPT
                        !.op = "incomplete", !.all = all_profiles,
                        !.include_failed = include_failed,
                        !.out = get_incomplete_profiles(ledger, all_profiles,
                                                        include_failed)]
    /\ UNCHANGED <<ledger, file>>
    /\ LedgerUnchanged

NextLedger ==
    LedgerSave \/ LedgerReset \/ LedgerIsCompleted \/ LedgerIncomplete

SpecLedger == InitLedger /\ [][NextLedger]_vars

\* ------------------------------- specification of saves around midnight
\* save_completion(profile_name, success, date) called again and again
\* over two days, with a date or without one, while the clock runs from
\* the first day into the second.  `ledger` is the file of the first day
\* and calendar.next the file of the second.
Days == {0, 1}

DaysCommand ==
    [name |-> "days", kill |-> FALSE, kill_all |-> FALSE,
     waittime |-> None, n |-> 0]

\* get_completion_file(date): `if date is None: date = datetime.now()...`,
\* the day named by the argument or the day the clock shows at the call.
get_completion_file(date, now) == IF IsNone(date) THEN now ELSE Val(date)

\* The records of the file of day d.
DayRecord(l, c, d) == IF d = 0 THEN l ELSE c.next

InitDays ==
    /\ cmd = DaysCommand
    /\ nPlugins = 0
    /\ pc = "days"
    /\ context = NoContext
    /\ completionAt = 0
    /\ notify_list = {}
    /\ scoopAt = 0
    /\ cur = 0
    /\ profile = NoProfile
    /\ bus = IdleBus
    /\ log = <<>>
    /\ canRun = "unset"
    /\ canKill = "unset"
    /\ vetoBy = 0
    /\ startResult = "unset"
    /\ killResult = "unset"
    /\ remaining = 0
    /\ failure_count = 0
    /\ monResult = "unset"
    /\ exit = "running"
    /\ vin = None
    /\ vres = "unset"
    /\ slept = None
    /\ launched = {}
    /\ checked = "unset"
    /\ recovered = 0
    /\ lastOp = NoOp
    /\ file = "object"
    /\ ld_model = NoLd
    /\ probe = NoProbe
    /\ procs = NoProcs
    /\ next_run = NoNextRun
    /\ ledger \in [Names -> {"none", "success", "failed"}]
    /\ \E nx \in [Names -> {"none", "success", "failed"}] :
         calendar = [NoCalendar EXCEPT !.next = nx]

DaysUnchanged ==
    UNCHANGED <<cmd, nPlugins, cur, profile, pc, bus, log, canRun, canKill,
                vetoBy, startResult, killResult, remaining, failure_count,
                monResult, context, exit, vin, vres, slept, launched,
                checked, recovered, completionAt, notify_list, ld_model,
                probe, scoopAt, procs, next_run>>

\* save_completion(profile_name, success, date): load_completions(date)
\* reads the file get_completion_file names at that moment; the entry is
\* set; get_completion_file(date) is called again and that file is
\* written.  Midnight may pass between the two calls.
DaysSave ==
    /\ pc = "days"
    /\ \E name \in Names, success \in BOOLEAN, date \in OptOf(Days),
          io \in WriteOutcomes, midnight \in BOOLEAN :
         /\ midnight => calendar.now = 0
         /\ LET later == IF midnight THEN 1 ELSE calendar.now
                read == get_completion_file(date, calendar.now)
                written == get_completion_file(date, later)
                completions ==
                    save_completion(DayRecord(ledger, calendar, read), name,
                                    success)
            IN /\ ledger' = IF written = 0
                            THEN Written(ledger, completions, io)
                            ELSE ledger
               /\ file' = IF written = 0 THEN FileAfter(file, io) ELSE file
               /\ calendar' =
                    [now |-> later,
                     next |-> IF written = 1
                              THEN Written(calendar.next, completions, io)
                              ELSE calendar.next,
                     date |-> date,
                     day |-> read]
               /\ lastOp' = [NoOp EXCEPT !.op = "save", !.name = name,
                                         !.success = success, !.io = io]
    /\ DaysUnchanged

\* The clock passes midnight while no save is running.
DaysMidnight ==
    /\ pc = "days"
    /\ calendar.now = 0
    /\ calendar' = [calendar EXCEPT !.now = 1]
    /\ UNCHANGED <<ledger, file, lastOp>>
    /\ DaysUnchanged

NextDays == DaysSave \/ DaysMidnight

SpecDays == InitDays /\ [][NextDays]_vars

\* ------------------------------- specification of two concurrent saves
\* Two `mxx run ...` processes on the same day, each saving the outcome
\* of its own profile: process i saves name i.  nPlugins = 1 stands for
\* CheckSingleInstancePlugin being loaded in both, 0 for its absence.
Procs == {1, 2}

RaceCommand ==
    [name |-> "race", kill |-> FALSE, kill_all |-> FALSE,
     waittime |-> None, n |-> 0]

NoProc ==
    [pc |-> "idle", name |-> 0, success |-> FALSE, completions |-> NoRecords,
     io |-> "ok"]

\* The attribute PluginLoader.emit looks up for an event:
\* `getattr(plugin, f"hook_{hook_name}", None)`.
EmitLookup(hook_name) == <<"hook_", hook_name>>

\* The method CheckSingleInstancePlugin defines: `def pre_command(...)`.
SingleInstanceMethods == {<<"", "pre_command">>}

\* Variant: the plugin defines the method under the name emit looks up.
SingleInstanceMethodsHooked == {<<"hook_", "pre_command">>}

\* emit('pre_command', ...) of PluginAwareCommand.invoke reaches the
\* plugin's check.
GuardRuns(loaded) ==
    loaded /\ EmitLookup("pre_command") \in SingleInstanceMethods

\* Another mxx process is found by psutil.process_iter.
OthersRunning(ps, i) ==
    \E j \in Procs \ {i} : ps[j].pc \in {"start", "loaded"}

InitRace ==
    /\ cmd = RaceCommand
    /\ nPlugins \in {0, 1}
    /\ pc = "race"
    /\ context = NoContext
    /\ completionAt = 0
    /\ notify_list = {}
    /\ scoopAt = 0
    /\ cur = 0
    /\ profile = NoProfile
    /\ bus = IdleBus
    /\ log = <<>>
    /\ canRun = "unset"
    /\ canKill = "unset"
    /\ vetoBy = 0
    /\ startResult = "unset"
    /\ killResult = "unset"
    /\ remaining = 0
    /\ failure_count = 0
    /\ monResult = "unset"
    /\ exit = "running"
    /\ vin = None
    /\ vres = "unset"
    /\ slept = None
    /\ launched = {}
    /\ checked = "unset"
    /\ recovered = 0
    /\ lastOp = NoOp
    /\ file = "object"
    /\ ld_model = NoLd
    /\ probe = NoProbe
    /\ calendar = NoCalendar
    /\ next_run = NoNextRun
    /\ ledger \in [Names -> {"none", "success", "failed"}]
    /\ procs = [i \in Procs |-> NoProc]

RaceUnchanged ==
    UNCHANGED <<cmd, nPlugins, cur, profile, pc, bus, log, canRun, canKill,
                vetoBy, startResult, killResult, remaining, failure_count,
                monResult, context, exit, vin, vres, slept, launched,
                checked, recovered, completionAt, notify_list, ld_model,
                probe, scoopAt, calendar, next_run, lastOp>>

\* PluginAwareCommand.invoke of process i: the pre_command event, then the
\* command, which comes to save the outcome of its profile.  The plugin's
\* check, where it runs, exits the process if another one is running.
RaceStart(i) ==
    /\ pc = "race"
    /\ procs[i].pc = "idle"
    /\ \E success \in BOOLEAN :
         procs' = [procs EXCEPT ![i] =
                     IF GuardRuns(nPlugins = 1) /\ OthersRunning(procs, i)
                     THEN [@ EXCEPT !.pc = "exited"]
                     ELSE [@ EXCEPT !.pc = "start", !.name = i,
                                    !.success = success]]
    /\ UNCHANGED <<ledger, file>>
    /\ RaceUnchanged

\* `completions = self.load_completions(date)` and
\* `completions[profile_name] = success` of process i.
RaceLoad(i) ==
    /\ pc = "race"
    /\ procs[i].pc = "start"
    /\ procs' = [procs EXCEPT ![i] =
                   [@ EXCEPT !.pc = "loaded",
                             !.completions =
                                 save_completion(ledger, procs[i].name,
                                                 procs[i].success)]]
    /\ UNCHANGED <<ledger, file>>
    /\ RaceUnchanged

\* `with open(completion_file, 'w') as f: json.dump(completions, f)` of
\* process i.
RaceWrite(i) ==
    /\ pc = "race"
    /\ procs[i].pc = "loaded"
    /\ \E io \in WriteOutcomes :
         /\ ledger' = Written(ledger, procs[i].completions, io)
         /\ file' = FileAfter(file, io)
         /\ procs' = [procs EXCEPT ![i] = [@ EXCEPT !.pc = "done",
                                                    !.io = io]]
    /\ RaceUnchanged

NextRace == \E i \in Procs : RaceStart(i) \/ RaceLoad(i) \/ RaceWrite(i)

SpecRace == InitRace /\ [][NextRace]_vars

\* ------------------------------------- specification of repeated `run next`
\* `mxx run next` invoked again and again on one day, with the completion
\* plugin loaded.  The profile files are valid and have a lifetime.
NextProfiles ==
    [ld : {"index"}, maa : {"none", "ok"}, lifetime : {Some(2)},
     waittime : {None}]

\* ctx.invoke(up, profiles=(next_profile,), waittime=None, kill=True,
\* kill_all=False)
NextCommand ==
    [name |-> "up", kill |-> TRUE, kill_all |-> FALSE, waittime |-> None,
     n |-> 1]

\* profile_resolver.list_profiles(): the names of all profile files, in
\* a fixed order.
ListProfiles == [k \in 1 .. MaxProfiles |-> k]

InitNext ==
    /\ cmd = NextCommand
    /\ nPlugins \in 1 .. MaxPlugins
    /\ pc = "next"
    /\ context = NoContext
    /\ completionAt \in 1 .. nPlugins
    /\ notify_list = {}
    /\ scoopAt = 0
    /\ Fresh

\* One invocation of run_next, in a new process once the previous one has
\* ended: the incomplete profiles are computed from today's file; without
\* any the command returns, otherwise by-completion is set in the context
\* and `up` is invoked for the first of them.
RunNext ==
    /\ pc \in {"next", "done"}
    /\ LET incomplete == get_incomplete_profiles(ledger, ListProfiles, FALSE)
       IN IF incomplete = <<>>
          THEN /\ pc' = "done" /\ exit' = "exit0"
               /\ context' = NoContext
               /\ next_run' = [next_run EXCEPT !.selected = 0]
          ELSE /\ pc' = "up_loop" /\ exit' = "running"
               /\ context' = WithVars(NoContext, TRUE)
               /\ next_run' = [selected |-> Head(incomplete),
                               attempted |-> next_run.attempted
                                             \cup {Head(incomplete)}]
    /\ cur' = 0
    /\ profile' = NoProfile
    /\ bus' = IdleBus
    /\ vin' = None
    /\ vres' = "unset"
    /\ ResetRun
    /\ UNCHANGED <<cmd, nPlugins, ledger>>
    /\ UNCHANGED <<completionAt, notify_list, lastOp, file, ld_model>>
    /\ UNCHANGED <<probe, scoopAt, calendar, procs>>

\* `up` takes up the one profile name it was invoked with: get_profile,
\* the context gets the name, validate_profile, start_profile.
UpBeginNext ==
    /\ Idle /\ pc = "up_loop" /\ cur < cmd.n
    /\ cur' = cur + 1
    /\ ResetRun
    /\ \/ /\ pc' = "done" /\ exit' = "exit1"
          /\ UNCHANGED <<profile, context, vin, vres>>
       \/ \E p \in NextProfiles :
          /\ profile' = p
          /\ context' = WithProfileName(context, next_run.selected)
          /\ vin' = Some(p)
          /\ vres' = validate_profile(Some(p))
          /\ IF vres' # "ok"
             THEN pc' = "done" /\ exit' = "exit1"
             ELSE pc' = "sp_validate" /\ UNCHANGED exit
    /\ UNCHANGED <<cmd, nPlugins, bus>>
    /\ UNCHANGED ledger
    /\ UNCHANGED <<completionAt, notify_list, lastOp, file, ld_model>>
    /\ UNCHANGED <<probe, scoopAt, calendar, procs, next_run>>

NextNext ==
    \/ Dispatch \/ BusReturn
    \/ SpValidate \/ SpGate \/ SpGated \/ SpLd \/ SpLdLaunch \/ SpWait
    \/ SpSleep \/ SpMaa \/ SpMaaLaunch \/ SpPost \/ SpPosted \/ SpRet
    \/ KpGate \/ KpGated \/ KpMaa \/ KpMaaKill \/ KpLd \/ KpLdKill
    \/ KpPost \/ KpPosted \/ KpRet
    \/ MonTick \/ MonInterrupt
    \/ UpDone \/ UpBeginNext \/ UpStarted \/ UpMonitored \/ UpFailed
    \/ RunNext

SpecNext == InitNext /\ [][NextNext]_vars

\* Every process gets to run and `run next` is invoked again after each
\* invocation has ended.
SpecNextFair == SpecNext /\ WF_vars(NextNext)

\* ------------------------------------------- the completion file on disk
\* What load_completions can find: no file; a JSON object; text that is
\* not JSON (a truncated write); a file that cannot be opened or read;
\* bytes that are not text in the encoding of open(); JSON that is not an
\* object (a list, null).
FileConditions ==
    {"missing", "object", "truncated", "unreadable", "undecodable",
     "not_object"}

\* load_completions: {} without a file and on json.JSONDecodeError or
\* IOError; UnicodeDecodeError, a ValueError that is neither, is raised
\* by f.read(); whatever json.load returns is returned, a dict or not.
load_completions(f, l) ==
    IF f = "undecodable"
    THEN [raised |-> TRUE, kind |-> "none", value |-> NoRecords]
    ELSE IF f = "not_object"
    THEN [raised |-> FALSE, kind |-> "other", value |-> NoRecords]
    ELSE [raised |-> FALSE, kind |-> "dict",
          value |-> IF f = "object" THEN l ELSE NoRecords]

LoadCommand ==
    [name |-> "load", kill |-> FALSE, kill_all |-> FALSE,
     waittime |-> None, n |-> 0]

\* The day's file as a command finds it, with the records its text names.
InitLoad ==
    /\ cmd = LoadCommand
    /\ nPlugins = 0
    /\ pc = "load"
    /\ context = NoContext
    /\ completionAt = 0
    /\ notify_list = {}
    /\ cur = 0
    /\ profile = NoProfile
    /\ bus = IdleBus
    /\ log = <<>>
    /\ canRun = "unset"
    /\ canKill = "unset"
    /\ vetoBy = 0
    /\ startResult = "unset"
    /\ killResult = "unset"
    /\ remaining = 0
    /\ failure_count = 0
    /\ monResult = "unset"
    /\ exit = "running"
    /\ vin = None
    /\ vres = "unset"
    /\ slept = None
    /\ launched = {}
    /\ checked = "unset"
    /\ recovered = 0
    /\ lastOp = NoOp
    /\ ld_model = NoLd
    /\ probe = NoProbe
    /\ scoopAt = 0
    /\ calendar = NoCalendar
    /\ procs = NoProcs
    /\ next_run = NoNextRun
    /\ file \in FileConditions
    /\ ledger \in IF file \in {"object", "truncated"}
                   THEN [Names -> {"none", "success", "failed"}]
                   ELSE {NoRecords}

\* load_completions()
LoadCall ==
    /\ pc = "load"
    /\ LET r == load_completions(file, ledger)
       IN lastOp' = [NoOp EXCEPT !.op = "load", !.raised = r.raised,
                                 !.loaded = r.kind]
    /\ UNCHANGED <<ledger, file>>
    /\ LedgerUnchanged

\* is_completed(profile_name, include_failed): completions.get raises
\* AttributeError if load_completions returned no dict.
LoadIsCompleted ==
    /\ pc = "load"
    /\ \E name \in Names, include_failed \in BOOLEAN :
         LET r == load_completions(file, ledger)
         IN lastOp' = [NoOp EXCEPT
                           !.op = "is_completed", !.name = name,
                           !.include_failed = include_failed,
                           !.raised = r.kind # "dict",
                           !.loaded = r.kind,
                           !.ret = /\ r.kind = "dict"
                                   /\ is_completed(r.value, name,
                                                   include_failed)]
    /\ UNCHANGED <<ledger, file>>
    /\ LedgerUnchanged

\* save_completion(profile_name, success): what load_completions raises
\* is raised, `completions[profile_name] = success` raises TypeError on
\* anything but a dict, and only then the file is opened for writing.
LoadSave ==
    /\ pc = "load"
    /\ \E name \in Names, success \in BOOLEAN, io \in WriteOutcomes :
         LET r == load_completions(file, ledger)
         IN IF r.kind # "dict"
            THEN /\ io = "ok"
                 /\ lastOp' = [NoOp EXCEPT !.op = "save", !.name = name,
                                           !.success = success,
                                           !.raised = TRUE,
                                           !.loaded = r.kind]
                 /\ UNCHANGED <<ledger, file>>
            ELSE /\ ledger' = Written(r.value,
                                      save_completion(r.value, name, success),
                                      io)
                 /\ file' = FileAfter(file, io)
                 /\ lastOp' = [NoOp EXCEPT !.op = "save", !.name = name,
                                           !.success = success, !.io = io,
                                           !.loaded = r.kind]
    /\ LedgerUnchanged

NextLoad == LoadCall \/ LoadIsCompleted \/ LoadSave

SpecLoad == InitLoad /\ [][NextLoad]_vars

\* --------------------------------------- specification of validate_profile
\* validate_profile applied to one argument drawn from VProfiles or None.
NoCommand ==
    [name |-> "validate", kill |-> FALSE, kill_all |-> FALSE,
     waittime |-> None, n |-> 0]

InitValidate ==
    /\ vin \in {None} \cup {Some(p) : p \in VProfiles}
    /\ vres = "unset"
    /\ pc = "validate_call"
    /\ cmd = NoCommand
    /\ nPlugins = 0
    /\ cur = 0
    /\ profile = NoProfile
    /\ bus = IdleBus
    /\ log = <<>>
    /\ canRun = "unset"
    /\ canKill = "unset"
    /\ vetoBy = 0
    /\ startResult = "unset"
    /\ killResult = "unset"
    /\ remaining = 0
    /\ failure_count = 0
    /\ monResult = "unset"
    /\ context = NoContext
    /\ exit = "running"
    /\ slept = None
    /\ launched = {}
    /\ ledger = NoRecords
    /\ checked = "unset"
    /\ recovered = 0
    /\ completionAt = 0
    /\ notify_list = {}
    /\ lastOp = NoOp
    /\ file = "missing"
    /\ ld_model = NoLd
    /\ probe = NoProbe
    /\ scoopAt = 0
    /\ calendar = NoCalendar
    /\ procs = NoProcs
    /\ next_run = NoNextRun

ValidateCall ==
    /\ pc = "validate_call"
    /\ vres' = validate_profile(vin)
    /\ pc' = "done"
    /\ exit' = IF vres' = "ok" THEN "returned" ELSE "raised"
    /\ UNCHANGED <<cmd, nPlugins, cur, profile, bus, log, canRun, canKill,
                   vetoBy, startResult, killResult, remaining, failure_count,
                   monResult, context, vin, slept, launched>>
    /\ UNCHANGED <<ledger, checked, recovered>>
    /\ UNCHANGED <<completionAt, notify_list, lastOp, file, ld_model>>
    /\ UNCHANGED <<probe, scoopAt, calendar, procs, next_run>>

NextValidate == ValidateCall

SpecValidate == InitValidate /\ [][NextValidate]_vars

\* ================================================================= claims
Events(l) == {l[k] : k \in 1 .. Len(l)}

BusDone == bus.active /\ bus.idx > nPlugins

\* ---------------------------------------------------------------------- C1
StartEvents == {"pre_profile_start", "ld_launch", "maa_launch",
                "post_profile_start"}

\* C1: when queryAllowRun (can_run_profile) answered false for the profile,
\* no pre_profile_start hook, no emulator or automation launch and no
\* post_profile_start hook occurs for it in the invocation.
C1_VetoedRunFiresNothing ==
    canRun = "no" => Events(log) \cap StartEvents = {}

\* ---------------------------------------------------------------------- C2
\* C2: a gate query consults the predicates in registration order, the
\* first false becomes the bus's answer and no predicate registered after
\* it is invoked; a later broadcast or emit still visits every plugin.
C2_GateShortCircuit ==
    /\ bus.kind = "gate" /\ bus.active /\ bus.answer =>
           /\ bus.called = 1 .. (bus.idx - 1)
           /\ bus.last # "false"
    /\ bus.kind = "gate" /\ bus.last = "false" =>
           /\ ~bus.answer
           /\ vetoBy \in Plugins
           /\ bus.called = 1 .. vetoBy
           /\ bus.idx = nPlugins + 1
    /\ bus.kind \in {"cast", "emit"} /\ BusDone =>
           bus.called \cup bus.skipped = Plugins

\* C2 witness: plugin 1 of 2 vetoed the run, plugin 2 was not asked, and a
\* later broadcast has visited both plugins.
C2_Witness ==
    /\ nPlugins = 2 /\ vetoBy = 1 /\ canRun = "no"
    /\ bus.kind = "cast" /\ BusDone /\ bus.called = {1, 2}

\* ---------------------------------------------------------------------- C3
C3_Inv ==
    /\ bus.kind = "gate" /\ ~bus.answer => bus.last = "false"
    /\ bus.kind = "gate" /\ BusDone /\ bus.answer => bus.called = Plugins
    /\ pc = "sp_gated" /\ ~bus.active /\ nPlugins = 0 => bus.answer

C3_Step ==
    bus.active /\ bus.kind = "gate" /\ bus.idx <= nPlugins /\ bus'.last = "err"
    => /\ bus'.active
       /\ bus'.idx = bus.idx + 1
       /\ bus'.answer = bus.answer
       /\ pc' = pc /\ exit' = exit

\* C3: a gate query answers true without plugins or when no plugin answers
\* false; a predicate that raises is skipped: the next plugin is consulted
\* and the answer is false only if some predicate returned false.
C3_RaiseIsNoOpinion == [](C3_Inv) /\ [][C3_Step]_vars

\* C3 witness: a finished can_run_profile query over two plugins whose last
\* predicate raised, and the answer is true.
C3_Witness ==
    /\ bus.kind = "gate" /\ bus.name = "can_run_profile" /\ BusDone
    /\ nPlugins = 2 /\ bus.last = "err" /\ bus.answer /\ bus.called = {1, 2}

\* ---------------------------------------------------------------------- C4
C4_Inv ==
    bus.kind \in {"cast", "emit"} /\ bus.active =>
        /\ bus.called \cup bus.skipped = 1 .. (bus.idx - 1)
        /\ bus.called \cap bus.skipped = {}
        /\ bus.kind = "cast" => bus.skipped = {}

C4_Step ==
    /\ bus.active /\ bus.kind \in {"cast", "emit"} /\ bus.idx <= nPlugins
    /\ bus'.last = "err"
    => /\ bus'.active
       /\ bus'.idx = bus.idx + 1
       /\ pc' = pc /\ exit' = exit

\* C4: in an emit or a lifecycle broadcast every plugin that defines the
\* handler is invoked, in registration order, and a handler that raises an
\* error does not stop the dispatch to the plugins after it.
C4_BroadcastReachesAll == [](C4_Inv) /\ [][C4_Step]_vars

\* C4 witness: in a broadcast over two plugins the handler of plugin 1
\* raised and plugin 2 is the next to be called.
C4_Witness ==
    /\ bus.kind = "cast" /\ bus.active /\ nPlugins = 2
    /\ bus.idx = 2 /\ bus.last = "err"

\* ---------------------------------------------------------------------- C5
\* C5 as stated: whatever a handler or predicate raises, the bus call goes
\* on and returns to the runner.
C5_NothingEscapesBus ==
    bus.last \in {"err", "exit"} => bus.active /\ exit = "running"

\* C5 amended: no Exception raised by a handler or predicate leaves the
\* bus; only a SystemExit (sys.exit in a handler) leaves it, and it ends the
\* command.
C5_ExceptionStaysInBus ==
    /\ bus.last = "err" => bus.active /\ exit = "running"
    /\ exit = "plugin_exit" => bus.last = "exit" /\ pc = "done"

\* C5 witness: the predicate of a plugin raised in can_kill_profile and the
\* query is still running.
C5_Witness ==
    /\ bus.name = "can_kill_profile" /\ bus.last = "err"
    /\ bus.active /\ exit = "running" /\ pc = "kp_gated"

\* ---------------------------------------------------------------------- C6
\* C6: when validation of the profile fails, start ends in failure (False
\* from start_profile, exit 1 from `up`), no gate query, hook or broadcast
\* has been called for the profile and nothing has been launched.
C6_InvalidFiresNothing ==
    vres \notin {"unset", "ok"} =>
        /\ log = <<>>
        /\ launched = {}
        /\ ~bus.active
        /\ canRun = "unset"
        /\ \/ cmd.name = "start" /\ startResult = "false"
           \/ cmd.name = "up" /\ exit = "exit1" /\ pc = "done"

\* C6 witness: start_profile has returned False for a profile without any
\* spec.
C6_Witness ==
    /\ cmd.name = "start" /\ pc = "sp_ret" /\ vres = "nospec"
    /\ startResult = "false"

\* ---------------------------------------------------------------------- C7
ProfileLevelChecks == {"null", "nospec", "lifetime", "waittime"}

\* C7: validate_profile raises ValidationError for a profile without any
\* spec, for a lifetime that is set and <= 0 and for a waittime that is
\* set and < 0; with a spec, lifetime unset or > 0 and waittime unset or
\* >= 0 no profile-level check raises.
C7_ValidateProfile ==
    pc = "done" /\ ~IsNone(vin) =>
        LET p == Val(vin)
            noSpec == p.ld = "none" /\ p.maa = "none"
            badLife == p.lifetime # None /\ p.lifetime[1] <= 0
            badWait == p.waittime # None /\ p.waittime[1] < 0
        IN /\ noSpec \/ badLife \/ badWait => vres # "ok" /\ exit = "raised"
           /\ ~noSpec /\ ~badLife /\ ~badWait
                  => vres \notin ProfileLevelChecks

\* C7 witness: a profile with an emulator spec and lifetime 0 was rejected.
C7_Witness ==
    /\ pc = "done" /\ ~IsNone(vin) /\ vres = "lifetime"
    /\ Val(vin).ld # "none" /\ Val(vin).lifetime = Some(0)

\* ---------------------------------------------------------------------- C8
ExpectedStart(p) ==
    <<"can_run_profile", "pre_profile_start">>
    \o (IF p.ld # "none" THEN <<"pre_ld_start", "ld_launch">> ELSE <<>>)
    \o (IF p.ld # "none" /\ p.maa # "none"
        THEN <<"pre_wait_time", "sleep">> ELSE <<>>)
    \o (IF p.maa # "none" THEN <<"pre_maa_launch", "maa_launch">> ELSE <<>>)
    \o <<"post_profile_start">>

\* C8: when start_profile returns True, the events of the start are, in
\* this order: gate query, pre_profile_start, [pre_ld_start, emulator
\* launch], [pre_wait_time, sleep - only with both specs], [pre_maa_launch,
\* automation launch], post_profile_start.
C8_StartOrder ==
    pc = "sp_ret" /\ startResult = "true" => log = ExpectedStart(profile)

\* C8 witness: a successful start of a profile with both specs.
C8_Witness ==
    /\ pc = "sp_ret" /\ startResult = "true"
    /\ profile.ld # "none" /\ profile.maa # "none"
    /\ launched = {"ld", "maa"}

\* ---------------------------------------------------------------------- C9
KillEvents == {"pre_profile_kill", "maa_kill", "ld_kill", "post_profile_kill"}

IsKillEvent(e) == e \in KillEvents

ExpectedKill(p) ==
    <<"pre_profile_kill">>
    \o (IF p.maa # "none" THEN <<"maa_kill">> ELSE <<>>)
    \o (IF p.ld # "none" THEN <<"ld_kill">> ELSE <<>>)
    \o <<"post_profile_kill">>

\* C9: kill_profile asks can_kill_profile first; after a false nothing is
\* emitted or stopped, after a true the events are pre_profile_kill, stop
\* of the automation, stop of the emulator, post_profile_kill, in this
\* order.
C9_KillOrder ==
    pc = "kp_ret" =>
        /\ "can_kill_profile" \in Events(log)
        /\ canKill = "no" => SelectSeq(log, IsKillEvent) = <<>>
        /\ canKill = "yes" =>
               SelectSeq(log, IsKillEvent) = ExpectedKill(profile)

\* --------------------------------------------------------------------- C10
\* C10: in an allowed kill of a profile with both specs, the stop of the
\* emulator is attempted and post_profile_kill is broadcast also when the
\* stop of the automation fails, and kill_profile returns to its caller.
C10_KillBestEffort ==
    /\ pc = "kp_ret" /\ canKill = "yes"
    /\ profile.ld # "none" /\ profile.maa # "none"
    => /\ "maa_kill" \in Events(log)
       /\ "ld_kill" \in Events(log)
       /\ "post_profile_kill" \in Events(log)

\* --------------------------------------------------------------------- C11
\* C11: when the monitor reports early termination after a successful
\* start, the post_profile_start broadcast is invoked again and the context
\* handed to every plugin in it carries the profile's name and the failed
\* flag set to true.
C11_FailureContextHanded ==
    pc = "up_failed" /\ monResult = "false" /\ startResult = "true" =>
        /\ log[Len(log)] = "post_profile_start"
        /\ bus.active =>
               /\ bus.name = "post_profile_start"
               /\ bus.ctx.profile_name = cur
               /\ bus.ctx.profile_failed

\* --------------------------------------------------------------------- C12
Count(l, e) == Cardinality({k \in 1 .. Len(l) : l[k] = e})

\* C12: with completion tracking on (the completion plugin installed and
\* by-completion set), after a successful start and an abort of the monitor
\* the command ends with the profile's ledger record failed, with no
\* launch step executed twice and with a non-zero exit status.
C12_AbortRecordedFailed ==
    /\ pc = "done" /\ exit # "plugin_exit"
    /\ completionAt # 0 /\ context.by_completion
    /\ startResult = "true" /\ monResult = "false"
    => /\ ledger[cur] = "failed"
       /\ exit = "exit1"
       /\ Count(log, "ld_launch") <= 1
       /\ Count(log, "maa_launch") <= 1

\* --------------------------------------------------------------------- C13
\* C13: with completion tracking on, a profile that is on today's notify
\* list and whose monitoring aborted after a successful start has the
\* ledger record success when the command ends.
C13_NotifyListOverride ==
    /\ pc = "done" /\ exit # "plugin_exit"
    /\ completionAt # 0 /\ context.by_completion
    /\ startResult = "true" /\ monResult = "false"
    /\ cur \in notify_list
    => ledger[cur] = "success"

\* --------------------------------------------------------------------- C14
Absent == {"both", "ld", "maa"}

\* The iteration that makes the wait return False.
AbortStep == pc = "mon" /\ pc' # "mon" /\ monResult' = "false"

\* A return of False happens at a check that brings the count of
\* consecutive failed checks to max_failures, with iterations of the
\* lifetime still to come, and that check has reported what was absent.
AbortOnlyAtTenth ==
    AbortStep =>
        /\ failure_count = max_failures - 1
        /\ Checks(remaining) /\ remaining > 1
        /\ checked' \in Absent

\* A failed check that brings the count to max_failures ends the wait.
TenthFailureAborts ==
    /\ pc = "mon" /\ failure_count = max_failures - 1
    /\ Checks(remaining) /\ checked' \in Absent
    /\ monResult' # "none"
    => AbortStep

\* C14: the wait never goes on with max_failures consecutive failed
\* checks counted; the check that brings the count to max_failures ends
\* the wait at once, before the lifetime has elapsed, with False and with
\* the absent component reported.
C14_AbortAtTenthFailure ==
    /\ [](pc = "mon" => failure_count < max_failures)
    /\ [][AbortOnlyAtTenth /\ TenthFailureAborts]_vars

C14_Witness ==
    /\ pc = "up_monitored" /\ monResult = "false"
    /\ checked = "both" /\ Val(profile.lifetime) = 120

\* --------------------------------------------------------------------- C15
\* The wait returns to its caller with True or False.
ReturnStep == pc = "mon" /\ pc' # "mon" /\ monResult' # "none"

\* The checks made so far in a wait of `seconds` that has `r` iterations
\* to go: one for each multiple of CheckEvery in (r, seconds].
ChecksMade(seconds, r) == (seconds \div CheckEvery) - (r \div CheckEvery)

\* C15 as stated: a wait of 30 seconds in which each of the checks failed
\* does not end with True.
C15_ThirtySecondsAborts ==
    [][/\ ReturnStep /\ Val(profile.lifetime) = 30
       /\ failure_count = ChecksMade(30, 0)
       => monResult' = "false"]_vars

ThirtySecondsExpire ==
    ReturnStep /\ Val(profile.lifetime) = 30 =>
        /\ monResult' = "true"
        /\ remaining = 1

AbortNeedsTenChecks ==
    AbortStep =>
        /\ Val(profile.lifetime) >= max_failures * CheckEvery
        /\ ChecksMade(Val(profile.lifetime), remaining - 1) >= max_failures
        /\ remaining >= CheckEvery

\* C15, amended: the failures counted never exceed the checks made, one
\* for each multiple of 10 the countdown has passed; a wait of 30 seconds
\* therefore makes 3 checks, never aborts and returns True when the
\* countdown expires, whatever the checks found; a wait is aborted only
\* if its lifetime is at least 100 seconds, at its tenth check or later,
\* and then with at least 9 seconds of the countdown left.
C15_AbortNeedsHundredSeconds ==
    /\ [](pc = "mon" =>
            failure_count <= ChecksMade(Val(profile.lifetime), remaining))
    /\ [][ThirtySecondsExpire /\ AbortNeedsTenChecks]_vars

C15_Witness ==
    /\ pc = "mon" /\ Val(profile.lifetime) = 30
    /\ remaining = 1 /\ failure_count = 3 /\ checked \in Absent

\* --------------------------------------------------------------------- C16
\* The loop goes on to its next iteration.
LoopStep == pc = "mon" /\ pc' = "mon"

\* What an iteration does to the counter: reset by a check that finds
\* both alive, plus one by a failed check, untouched without a check.
CounterStep ==
    LoopStep =>
        /\ Checks(remaining) /\ checked' = "ok" => failure_count' = 0
        /\ Checks(remaining) /\ checked' \in Absent =>
               failure_count' = failure_count + 1
        /\ ~Checks(remaining) => failure_count' = failure_count

\* A check that finds both alive is never the end of the wait, and a wait
\* whose counter is 0 does not return False.
AliveGoesOn ==
    /\ pc = "mon" /\ Checks(remaining) /\ checked' = "ok"
       /\ monResult' # "none" => pc' = "mon"
    /\ ReturnStep /\ failure_count = 0 =>
           monResult' = "true" /\ remaining = 1

\* C16: every check that finds both processes alive resets the failure
\* counter to zero, so that only consecutive failures accumulate: while
\* the last check found both alive the counter is 0, such a check never
\* ends the wait, and a return with the counter at 0 is the return of
\* True at the expiry of the countdown.
C16_RecoveryResetsCounter ==
    /\ [](pc = "mon" /\ checked = "ok" => failure_count = 0)
    /\ [][CounterStep /\ AliveGoesOn]_vars

\* Three failed checks, then recovery, alive since, last iteration.
C16_Witness ==
    /\ pc = "mon" /\ recovered = 3 /\ checked = "ok"
    /\ failure_count = 0 /\ remaining = 1

\* --------------------------------------------------------------------- C17
\* Iterations made by a wait that has `remaining` still to make.
Ticks == Val(profile.lifetime) - remaining

\* An iteration is one tick; True is returned by the iteration that
\* brings the ticks to the lifetime, and by no other.
TickStep ==
    /\ LoopStep => remaining' = remaining - 1
    /\ ReturnStep /\ monResult' = "true" => Ticks + 1 = Val(profile.lifetime)
    /\ ReturnStep /\ Ticks + 1 = Val(profile.lifetime) => monResult' = "true"

\* C17: while the wait runs it has made fewer ticks than the lifetime,
\* each iteration is one tick, the iteration that completes the lifetime
\* returns True and no other does, and a wait that is entered ends.
C17_ExactlyLifetimeTicks ==
    /\ [](pc = "mon" => Ticks >= 0 /\ Ticks < Val(profile.lifetime))
    /\ [][TickStep]_vars
    /\ (pc = "mon") ~> (pc = "up_monitored")

\* The last iteration of a wait of 120 seconds that nothing disturbed has
\* been made.
C17_Witness ==
    /\ pc = "up_monitored" /\ monResult = "true"
    /\ Val(profile.lifetime) = 120 /\ checked = "ok"

\* --------------------------------------------------------------------- C18
\* The wait ends otherwise than by returning True or False.
InterruptStep ==
    pc = "mon" /\ pc' # "mon" /\ monResult' \notin {"true", "false"}

C19_InterruptIsIndeterminate ==
    monResult = "none" =>
        /\ pc # "up_failed"
        /\ ~context.profile_failed
        /\ Count(log, "post_profile_start") <= 1
        /\ ledger[cur] # "failed"
        /\ exit # "exit1"

\* --------------------------------------------------------------------- C20
\* The record a save of `success` leaves.
Record(success) == IF success THEN "success" ELSE "failed"

\* is_completed answers true iff the name has a record and the record is a
\* success or include_failed is set.
IsCompletedIff ==
    /\ \A name \in Names, include_failed \in BOOLEAN :
           is_completed(ledger, name, include_failed) <=>
               /\ ledger[name] # "none"
               /\ ledger[name] = "success" \/ include_failed
    /\ lastOp.op = "is_completed" =>
           lastOp.ret = /\ ledger[lastOp.name] # "none"
                        /\ \/ ledger[lastOp.name] = "success"
                           \/ lastOp.include_failed

\* C20 as stated: is_completed answers as above and, after a save of
\* (name, success), is_completed(name, False) is `success` and
\* is_completed(name, True) is true.
C20_SaveRoundTrip ==
    /\ IsCompletedIff
    /\ lastOp.op = "save" =>
           /\ is_completed(ledger, lastOp.name, FALSE) = lastOp.success
           /\ is_completed(ledger, lastOp.name, TRUE)

\* The call that has just returned.
LedgerCall(op) == lastOp' # lastOp /\ lastOp'.op = op

SaveStep ==
    LedgerCall("save") =>
        ledger' = Written(ledger,
                          [ledger EXCEPT ![lastOp'.name] =
                                             Record(lastOp'.success)],
                          lastOp'.io)

ResetStep ==
    LedgerCall("reset") =>
        /\ lastOp'.ret = (ledger[lastOp'.name] # "none" /\ lastOp'.io = "ok")
        /\ lastOp'.ret => ledger' = [ledger EXCEPT ![lastOp'.name] = "none"]
        /\ ledger[lastOp'.name] = "none" => ledger' = ledger

\* C20, amended: is_completed answers as above; a save whose write of the
\* file succeeds leaves the record of its own `success` for the name,
\* whatever was recorded before, and changes no other name, so that
\* is_completed(name, False) is `success` and is_completed(name, True) is
\* true; a save whose open fails leaves the file as it was, one whose
\* write fails after the open leaves no record at all; a reset deletes
\* the record of its name only.
C20_LedgerRoundTrip ==
    /\ [](IsCompletedIff)
    /\ [](lastOp.op = "save" /\ lastOp.io = "ok" =>
            /\ ledger[lastOp.name] = Record(lastOp.success)
            /\ is_completed(ledger, lastOp.name, FALSE) = lastOp.success
            /\ is_completed(ledger, lastOp.name, TRUE))
    /\ [][SaveStep /\ ResetStep]_vars

\* A failed run was saved and is_completed(name, include_failed = True)
\* has answered true.
C20_Witness ==
    /\ lastOp.op = "is_completed" /\ lastOp.include_failed /\ lastOp.ret
    /\ ledger[lastOp.name] = "failed"

\* --------------------------------------------------------------------- C21
\* The day's record without the key `name`.
Without(l, name) == [l EXCEPT ![name] = "none"]

\* C21 as stated: a reset of a name without a record returns False and
\* changes nothing; a reset of a recorded name returns True and leaves
\* the previous record minus that key.
ResetAsStated ==
    LedgerCall("reset") =>
        IF ledger[lastOp'.name] = "none"
        THEN ~lastOp'.ret /\ ledger' = ledger
        ELSE lastOp'.ret /\ ledger' = Without(ledger, lastOp'.name)

ResetByOutcome ==
    LedgerCall("reset") =>
        /\ ledger[lastOp'.name] = "none" => ~lastOp'.ret /\ ledger' = ledger
        /\ ledger[lastOp'.name] # "none" /\ lastOp'.io = "ok" =>
               lastOp'.ret /\ ledger' = Without(ledger, lastOp'.name)
        /\ ledger[lastOp'.name] # "none" /\ lastOp'.io = "open_fails" =>
               ~lastOp'.ret /\ ledger' = ledger
        /\ ledger[lastOp'.name] # "none" /\ lastOp'.io = "write_fails" =>
               ~lastOp'.ret /\ ledger' = NoRecords

\* A reset of the name whose reset has just returned True returns False.
SecondReset ==
    /\ LedgerCall("reset") /\ lastOp.op = "reset" /\ lastOp.ret
    /\ lastOp'.name = lastOp.name
    => ~lastOp'.ret /\ ledger' = ledger

OfStatus(l, st) == SelectSeq(l, LAMBDA n : ledger[n] = st)

\* C22: the list returned holds each name as often as all_profiles does
\* if is_completed(name, include_failed) is false and not at all if it is
\* true; no failed name stands before a name never attempted; the names
\* never attempted, and the failed ones, stand in the order they have in
\* all_profiles; with include_failed set the list holds no failed name.
C22_IncompleteProfiles ==
    lastOp.op = "incomplete" =>
        LET all == lastOp.all
            out == lastOp.out
            inc == lastOp.include_failed
        IN /\ \A n \in Names :
                  Count(out, n) = IF is_completed(ledger, n, inc)
                                  THEN 0 ELSE Count(all, n)
           /\ \A i, j \in 1 .. Len(out) :
                  ledger[out[i]] = "failed" /\ ledger[out[j]] = "none"
                      => j < i
           /\ OfStatus(out, "none") = OfStatus(all, "none")
           /\ ~inc => OfStatus(out, "failed") = OfStatus(all, "failed")
           /\ inc => OfStatus(out, "failed") = <<>>
           /\ OfStatus(out, "success") = <<>>

\* The failed name, first in all_profiles, was moved behind the name never
\* attempted.
C22_Witness ==
    /\ lastOp.op = "incomplete" /\ ~lastOp.include_failed
    /\ Len(lastOp.all) = 3 /\ Len(lastOp.out) = 3
    /\ ledger[lastOp.all[1]] = "failed" /\ ledger[lastOp.out[1]] = "none"

\* --------------------------------------------------------------------- C23
Corrupt == {"truncated", "unreadable", "undecodable", "not_object"}

\* C23: with the day's file missing or corrupt, load_completions raises
\* nothing and returns the empty record, and is_completed raises nothing
\* and answers false, with include_failed set or not.
C23_LoadNeverFails ==
    file \in {"missing"} \cup Corrupt =>
        /\ lastOp.op = "load" => ~lastOp.raised /\ lastOp.loaded = "dict"
        /\ lastOp.op = "is_completed" => ~lastOp.raised /\ ~lastOp.ret

\* --------------------------------------------------------------------- C24
\* C24: a `run up` of several profiles that has ended after a validation
\* error or a monitor abort of one profile has taken up every profile it
\* names.
C24_OtherProfilesProcessed ==
    /\ pc = "done" /\ cmd.name = "up"
    /\ vres \notin {"ok", "unset"} \/ monResult = "false"
    => cur = cmd.n

\* --------------------------------------------------------------------- C25
\* start_profile has returned False because the launch of the emulator or
\* of the automation raised: the launch is the last event of the run.
LaunchFailed ==
    /\ startResult = "false" /\ canRun = "yes" /\ log # <<>>
    /\ log[Len(log)] \in {"ld_launch", "maa_launch"}

\* C25: `up` does not go on to its "started successfully" message after a
\* failed launch; and a `run up` of one profile without --kill/--kill-all
\* ends with status 1 after a failed launch or a failed validation and
\* with status 0 after a successful start or a veto.
C25_UpExitCodes ==
    /\ pc = "up_started" => ~LaunchFailed
    /\ /\ pc = "done" /\ cmd.name = "up" /\ cmd.n = 1
       /\ ~cmd.kill /\ ~cmd.kill_all /\ exit # "plugin_exit"
       => /\ LaunchFailed => exit = "exit1"
          /\ vres \notin {"ok", "unset"} => exit = "exit1"
          /\ startResult = "true" \/ canRun = "no" => exit = "exit0"

\* --------------------------------------------------------------------- C26
\* `up` with --kill or --kill-all is at a profile without a lifetime.
NoLifetime ==
    /\ cmd.name = "up" /\ (cmd.kill \/ cmd.kill_all)
    /\ cur >= 1 /\ IsNone(profile.lifetime)

StopEvents ==
    {"can_kill_profile", "pre_profile_kill", "maa_kill", "ld_kill",
     "post_profile_kill", "ld_quitall"}

\* No monitoring and no kill for the profile, and the warning is the last
\* thing done for it once its start has returned.
NoLifetimeInv ==
    NoLifetime =>
        /\ pc \notin {"mon", "up_monitored", "up_failed", "down_all", "kp_ret"}
        /\ pc \notin KpPcs
        /\ monResult = "unset"
        /\ Events(log) \cap StopEvents = {}
        /\ pc \in {"up_loop", "done"} /\ startResult # "unset" =>
               log[Len(log)] = "no_lifetime_warning"

\* What the start launched stays launched.
NoLifetimeStep ==
    NoLifetime /\ cur' = cur => launched \subseteq launched'

\* C26: for a profile without a lifetime, `up` with --kill or --kill-all
\* prints the warning after the start, enters no monitoring and stops
\* nothing: the processes launched are left running.
C26_NoLifetimeNoKill == [](NoLifetimeInv) /\ [][NoLifetimeStep]_vars

C26_Witness ==
    /\ NoLifetime /\ pc = "done" /\ cmd.kill
    /\ launched = {"ld", "maa"}
    /\ log[Len(log)] = "no_lifetime_warning"

\* --------------------------------------------------------------------- C27
\* The seconds the claim gives: the override, else the profile's
\* waittime, else the default.
WaitSeconds(c, p) ==
    IF ~IsNone(c.waittime) THEN Val(c.waittime)
    ELSE IF ~IsNone(p.waittime) THEN Val(p.waittime)
    ELSE DefaultWait

\* C27: the sleep between the emulator launch and the automation launch
\* of `up` lasts the seconds of the --waittime override if given, else
\* those of the profile's waittime if set, 0 included, else 15.
C27_WaitSeconds ==
    cmd.name = "up" /\ ~IsNone(slept) =>
        Val(slept) = WaitSeconds(cmd, profile)

\* --------------------------------------------------------------------- C28
\* `set` as __post_init__ reads the fields: an index that is not None, a
\* name that is not None and not empty.
ExactlyOneSet(o) == IsNone(o.index) # NameFalsy(o.name)

\* C28: the LDModel that exists has exactly one of index and name set,
\* after its construction and after every update; and a create with both
\* or with neither is rejected with the error for it.
C28_ExactlyOneOfIndexName ==
    /\ ~IsNone(ld_model.obj) => ExactlyOneSet(Val(ld_model.obj))
    /\ ld_model.call = "create" /\ ld_model.raised = "none" =>
           ~IsNone(ld_model.obj)

\* --------------------------------------------------------------------- C29
\* What stops a process: the kill of the automation, the quit of one
\* emulator instance, the quit of all emulator instances.
Stops == {"maa_kill", "ld_kill", "ld_quitall"}

Stopped == Events(log) \cap Stops # {}

\* C29: on every path that stops processes (`run down` with and without
\* profile names, `run up` with --kill and with --kill-all) nothing is
\* stopped unless can_kill_profile was asked and answered true and
\* pre_profile_kill was broadcast before the stop, and post_profile_kill
\* is broadcast by the time the stop has returned to the command.
C29_EveryStopGated ==
    /\ Stopped =>
           /\ "can_kill_profile" \in Events(log)
           /\ canKill = "yes"
           /\ "pre_profile_kill" \in Events(log)
    /\ Stopped /\ pc \in {"kp_ret", "up_loop", "down_loop", "done"} =>
           "post_profile_kill" \in Events(log)

\* --------------------------------------------------------------------- C30
\* The profile of the run has a record for today that counts as completed
\* under the options of the command.
CompletedToday ==
    cur >= 1 /\ is_completed(ledger, cur, context.include_failed)

LaunchEvents == {"ld_launch", "maa_launch"}

\* The completion plugin's pre_profile_start handler has been run.
CompletionAsked ==
    /\ bus.name = "pre_profile_start" /\ completionAt \in bus.called

\* C30: with by-completion=true and no reset, a profile whose record for
\* today is success (or any record, with include-failed=true) is not
\* launched: neither its emulator nor its automation is started before
\* the record could change, and once the completion plugin was asked the
\* run has ended by its exit without error.
C30_NoSecondRunToday ==
    /\ CompletedToday /\ "post_profile_start" \notin Events(log) =>
           Events(log) \cap LaunchEvents = {}
    /\ CompletedToday /\ CompletionAsked =>
           pc = "done" /\ exit = "plugin_exit"

\* --------------------------------------------------------------------- C31
\* The emulator query cannot be performed.
QueryFails == probe.ld_query \in {"timeout", "absent", "error"}

\* C31: a liveness check is a failure (and adds one to the failure
\* counter) exactly when the emulator sub-check or the automation
\* sub-check reports not running; the emulator sub-check reports running
\* for a profile without emulator spec, for an emulator given by name and
\* when the query cannot be performed; the automation sub-check reports
\* running for a profile without automation executable.
C31_FailureTick ==
    probe.reason # "unset" =>
        /\ ~probe.is_running <=> (~probe.ld_running \/ ~probe.maa_running)
        /\ \A fc \in 0 .. max_failures - 1 :
               FailureCount(TRUE, probe.is_running, fc) = fc + 1
                   <=> (~probe.ld_running \/ ~probe.maa_running)
        /\ profile.ld \in {"none", "name"} \/ QueryFails => probe.ld_running
        /\ profile.maa \in {"none", "no_app"} => probe.maa_running

\* A check of a profile with both specs whose emulator query times out
\* and whose executable is not in the process table.
C31_Witness ==
    /\ profile.ld = "index" /\ profile.maa = "ok"
    /\ probe.ld_query = "timeout" /\ ~probe.maa_found
    /\ probe.reason = "maa" /\ ~probe.is_running

\* --------------------------------------------------------------------- C32
\* The events of start_profile in the log of the run.
IsStartEvent(e) ==
    e \notin StopEvents \cup {"post_profile_start", "no_lifetime_warning"}

StartTrace == SelectSeq(log, IsStartEvent)

\* start_profile has returned False because _start_ld or _start_maa
\* raised: the launch is the last thing start_profile did.
LaunchRaised ==
    /\ startResult = "false" /\ canRun = "yes" /\ StartTrace # <<>>
    /\ StartTrace[Len(StartTrace)] \in LaunchEvents

\* C32: after a launch of the emulator or of the automation has raised,
\* start has reported failure, post_profile_start is not broadcast for
\* the profile and the orchestrator stops no process: what the same start
\* had launched before stays launched.
C32_FailedLaunchLeftAsIs ==
    LaunchRaised =>
        /\ "post_profile_start" \notin Events(log)
        /\ Events(log) \cap Stops = {}
        /\ "ld_launch" \in Events(log) /\ "maa_launch" \in Events(log)
               => "ld" \in launched

\* --------------------------------------------------------------------- C33
\* C33: from its validation by `up` to the end of its run (start,
\* monitoring, kill) the profile is the profile that was validated: no
\* gate query, hook or broadcast changes a field of it.
C33_ProfileImmutable ==
    cmd.name = "up" /\ cur >= 1 /\ ~IsNone(vin) => profile = Val(vin)

\* --------------------------------------------------------------------- C34
\* C34: under repeated `run next` over the same profiles, every profile
\* is attempted at some time: none is selected forever ahead of one that
\* was never attempted.
C34_EveryProfileAttempted == <>(next_run.attempted = Names)

\* --------------------------------------------------------------------- C35
\* What a successful start of the profile has launched.
LaunchedByStart ==
    (IF profile.ld # "none" THEN {"ld"} ELSE {})
        \cup (IF profile.maa # "none" THEN {"maa"} ELSE {})

\* C35: in `run up` with --kill or --kill-all the gate query of the kill,
\* the kill hooks and the stops occur only once the wait has returned
\* True; after an interrupt or an abort of the wait none of them occurs
\* and what the start launched is still launched.
C35_KillOnlyAfterFullWait ==
    cmd.name = "up" =>
        /\ Events(log) \cap StopEvents # {} => monResult = "true"
        /\ monResult \in {"false", "none"} /\ startResult = "true" =>
               launched = LaunchedByStart

\* A wait ended by the interrupt or by the abort: the command ends with
\* the emulator and the automation still launched.
C35_Witness ==
    /\ pc = "done" /\ exit = "exit1" /\ monResult \in {"false", "none"}
    /\ startResult = "true" /\ launched = {"ld", "maa"}
    /\ "post_profile_start" \in Events(log)

\* --------------------------------------------------------------------- C36
\* C36: in one emit, one lifecycle broadcast or one gate query the body
\* of the handler of the plugin visited last was executed at most once,
\* also when it raised.
C36_HandlerInvokedOnce == bus.execs <= 1

\* --------------------------------------------------------------------- C37
\* The counter as the length of the current run of failed checks: 0 when
\* the wait is entered, one more after a failed check, 0 after a check
\* that found the profile alive, the same after an iteration without a
\* check; and the failed check that makes the run max_failures long is
\* the end of the wait.
StreakStep ==
    /\ pc # "mon" /\ pc' = "mon" => failure_count' = 0
    /\ CounterStep
    /\ /\ pc = "mon" /\ Checks(remaining) /\ checked' \in Absent
       /\ failure_count + 1 = max_failures /\ monResult' # "none"
       => pc' # "mon" /\ monResult' = "false"

\* C37: the failure counter of the wait is never below 0 nor above
\* max_failures, it is the number of consecutive failed checks since the
\* last check that found the profile alive or since the wait began, and
\* the wait returns when it reaches max_failures.
C37_CounterIsStreak ==
    /\ [](failure_count >= 0 /\ failure_count <= max_failures)
    /\ [](pc = "mon" /\ checked = "unset" => failure_count = 0)
    /\ [][StreakStep]_vars

\* One failed check, a recovery, then nine failed checks in a row.
C37_Witness ==
    /\ pc = "mon" /\ Val(profile.lifetime) = 120
    /\ recovered = 1 /\ failure_count = max_failures - 1
    /\ checked \in Absent

\* --------------------------------------------------------------------- C38
\* The argument `seconds` of the wait.
WaitLength == Val(profile.lifetime)

\* The iterations already made by a wait that has `r` still to make.
TicksDone(r) == (r + 1) .. WaitLength

\* An iteration whose remaining-seconds counter is a multiple of 10 ends
\* with the outcome of a check recorded and the counter of failures set by
\* it; any other iteration leaves both as they were.
CheckAtMultiplesOfTen ==
    /\ pc = "mon" /\ remaining % 10 = 0 /\ (LoopStep \/ ReturnStep) =>
          /\ checked' \in {"ok"} \cup Absent
          /\ LoopStep => failure_count' =
                IF checked' = "ok" THEN 0 ELSE failure_count + 1
    /\ LoopStep /\ remaining % 10 # 0 =>
          UNCHANGED <<checked, failure_count, recovered>>
    /\ ReturnStep /\ remaining % 10 # 0 =>
          /\ UNCHANGED checked
          /\ monResult' = "true"

\* A wait is aborted only if it is at least 100 seconds long.
AbortNeedsLongWait == AbortStep => WaitLength >= 100

\* A wait of no seconds is never entered.
NoLoopWithoutSeconds ==
    pc = "mon_call" /\ pc' # "mon_call" /\ Val(profile'.lifetime) <= 0 =>
        /\ pc' = "up_monitored" /\ monResult' = "true"
        /\ UNCHANGED <<remaining, failure_count, checked, recovered>>

\* C38: the checks of a wait of L seconds are made in the iterations whose
\* remaining-seconds counter is a multiple of 10 and in no other, so that
\* floor(L/10) of the L iterations check and floor(L/10) - floor(r/10) of
\* them have checked when r iterations remain; a wait is aborted only if
\* L >= 100; a wait of L <= 0 makes no iteration and no check and returns
\* True.
C38_ChecksAtMultiplesOfTen ==
    /\ [](pc = "mon" =>
            /\ Cardinality({r \in 1 .. WaitLength : Checks(r)})
                  = WaitLength \div 10
            /\ Cardinality({r \in TicksDone(remaining) : Checks(r)})
                  = (WaitLength \div 10) - (remaining \div 10)
            /\ checked = "unset" <=>
                  {r \in TicksDone(remaining) : Checks(r)} = {})
    /\ [](pc = "up_monitored" /\ WaitLength <= 0 =>
            monResult = "true" /\ checked = "unset" /\ remaining = 0)
    /\ [][CheckAtMultiplesOfTen /\ AbortNeedsLongWait
           /\ NoLoopWithoutSeconds]_vars

\* A wait of exactly 100 seconds was aborted by its tenth check, the one
\* made with 10 seconds remaining.
C38_Witness ==
    /\ pc = "up_monitored" /\ monResult = "false"
    /\ WaitLength = 100 /\ checked = "ld"

\* --------------------------------------------------------------------- C39
\* A step that is a save: the argument names of the call are in lastOp
\* and the day its date stands for in calendar.day.
DatedSaveStep == lastOp'.op = "save" /\ <<ledger, calendar, lastOp>>' #
                                    <<ledger, calendar, lastOp>>

\* A save leaves every entry but that of its name in the record of its
\* day as it was.
SaveFrame ==
    DatedSaveStep =>
        \A d \in Days, n \in Names :
            d # calendar'.day \/ n # lastOp'.name =>
                DayRecord(ledger', calendar', d)[n]
                    = DayRecord(ledger, calendar, d)[n]

\* A save with the arguments of the save before it, which was written,
\* changes no record.
SaveTwice ==
    /\ DatedSaveStep /\ lastOp.op = "save" /\ lastOp.io = "ok"
    /\ lastOp'.name = lastOp.name /\ lastOp'.success = lastOp.success
    /\ calendar'.day = calendar.day /\ calendar'.date = calendar.date
    => /\ ledger' = ledger
       /\ calendar'.next = calendar.next

\* C39: save(name, success, date) changes only the entry of `name` in the
\* record of `date`, every other entry of that day and every entry of
\* every other day is the same after the save as before it, and saving
\* the same (name, success) twice leaves the same record as saving once.
C39_SaveChangesOneEntry == [][SaveFrame /\ SaveTwice]_vars

\* --------------------------------------------------------------------- C40
\* The outcome a finished save of process i recorded.
Outcome(i) == IF procs[i].success THEN "success" ELSE "failed"

\* Both processes have saved, and both files were written.
BothSaved ==
    \A i \in Procs : procs[i].pc = "done" /\ procs[i].io = "ok"

\* C40: when two processes have interleaved their saves of two different
\* names on the same day and both saves have finished, the day's record
\* holds the outcome of both.
C40_NoOutcomeLost ==
    BothSaved => \A i \in Procs : ledger[procs[i].name] = Outcome(i)

====
